-------------------------------- MODULE Trust --------------------------------
(***************************************************************************)
(* The agent's trust on disk and in memory: the TLS material of its        *)
(* listener (server/transport-tls) and the keys of those who may sign      *)
(* commands (server/control-plane), each loaded from files that ops        *)
(* rewrite, and reloaded while connections are accepted and commands are   *)
(* verified.                                                               *)
(*                                                                         *)
(* A file is the sequence of the objects in it (certificates, a key, CRLs, *)
(* or public keys), Missing, or Oversized; the object Bad does not parse.  *)
(* A file is rewritten in place: its old content goes first, and the new   *)
(* arrives object by object.  A certificate authority is its name, a leaf  *)
(* is <<authority, key>>, and a CRL is <<authority, revoked serials>>.     *)
(***************************************************************************)
EXTENDS Naturals, Sequences, FiniteSets, SequencesExt, Collections

CONSTANTS
  TlsFiles,   \* [ca, crl: sequences of files; chain, key: files]
  TrustFiles, \* the files of the trust directory, one an actor
  Contents,   \* file -> sequence of the contents ops give it, the first at the start
  Loaders,    \* the threads that may reload
  Clients,    \* the clients' certificates: <<authority, serial>>
  MaxWrites,  \* bound: files rewritten
  MaxLoads,   \* bound: reloads
  Missing, Oversized, Bad, Err, Nothing

VARIABLES
  disk,     \* file -> content
  writing,  \* [file, rest]: the rewrite under way, or Nothing
  live,     \* what is in force: [tls: [roots, leaf, crls], keys: actor -> keys]
  loading,  \* thread -> [store, left, got, listed], or Nothing
  conns,    \* client -> [pc, cfg, could, alone]: "none", "taken", "served" or "refused"
  listed,   \* store -> file -> objects in it at some time since the latest reload of the
            \* store that has succeeded began
  overlaid, \* the stores of which two reloads have been under way at once
  writes, loads

trustVars == <<disk, writing, live, loading, conns, listed, overlaid, writes, loads>>

Stores == {"tls", "keys"}
Files == ToSet(TlsFiles.ca) \cup ToSet(TlsFiles.crl) \cup {TlsFiles.chain, TlsFiles.key} \cup ToSet(TrustFiles)
FilesOf(store) == IF store = "tls" THEN TlsFiles.ca \o TlsFiles.crl \o <<TlsFiles.chain, TlsFiles.key>>
                  ELSE TrustFiles

Objects(c) == IF c = Missing \/ c = Oversized THEN {} ELSE ToSet(c)

-----------------------------------------------------------------------------
(* Loaders. *)

\* read_capped_cert_file, read_capped_key_file, and the parsers after them: any
\* object that does not parse spoils its file.
Parsed(c) == IF c = Missing \/ c = Oversized THEN Err ELSE IF Bad \in ToSet(c) THEN Err ELSE c

\* load_certs, load_private_key, load_crls: nothing in a file is an error.
LoadSome(c) == IF Parsed(c) = <<>> THEN Err ELSE Parsed(c)

\* load_root_store and load_crls_from_files: every object of every file.
LoadAll(got, paths) ==
  IF \E p \in ToSet(paths) : LoadSome(got[p]) = Err THEN Err
  ELSE UNION {ToSet(got[p]) : p \in ToSet(paths)}

\* server_config_from_files and its sibling with CRLs: trust anchors there must
\* be, and the key must be the leaf's.
BuildTls(got) ==
  LET roots == LoadAll(got, TlsFiles.ca)
      crls  == LoadAll(got, TlsFiles.crl)
      chain == LoadSome(got[TlsFiles.chain])
      key   == LoadSome(got[TlsFiles.key])
  IN  IF roots = Err \/ chain = Err \/ key = Err \/ crls = Err THEN Err
      ELSE IF roots = {} \/ Head(chain)[2] # Head(key) THEN Err
      ELSE [roots |-> roots, leaf |-> Head(chain), crls |-> crls]

\* load_trust_dir: one bad file fails the load.  The directory is enumerated: a file
\* that is gone, like one without a key, leaves its actor without one.
BuildKeys(got) ==
  IF \E p \in ToSet(TrustFiles) : got[p] # Missing /\ Parsed(got[p]) = Err THEN Err
  ELSE [p \in ToSet(TrustFiles) |-> Objects(got[p])]

Build(store, got) == IF store = "tls" THEN BuildTls(got) ELSE BuildKeys(got)

\* WebPkiClientVerifier, required: the client's certificate chains to a root and,
\* where CRLs are enforced, its authority's is there and does not list it.
ClientAccepted(roots, crls, c) ==
  /\ c[1] \in roots
  /\ TlsFiles.crl # <<>> =>
       /\ \E l \in crls : l[1] = c[1]
       /\ \A l \in crls : l[1] = c[1] => c[2] \notin l[2]

HeldBy(f) == UNION {Objects(Contents[f][i]) : i \in DOMAIN Contents[f]}

\* A file is there as a sequence of objects or it is not; the process has come up
\* with the files it found.
ASSUME TrustAssumption ==
  /\ \A f \in Files :
       /\ 1 \in DOMAIN Contents[f]
       /\ \A i \in DOMAIN Contents[f] :
            Contents[f][i] \in {Missing, Oversized} \/ Contents[f][i] \in Seq(HeldBy(f))
       /\ Missing \notin Seq(HeldBy(f)) /\ Oversized \notin Seq(HeldBy(f))
  /\ {TlsFiles.ca, TlsFiles.crl, TrustFiles} \subseteq Seq(Files)
  /\ BuildTls([f \in Files |-> Contents[f][1]]) # Err
  /\ BuildKeys([f \in Files |-> Contents[f][1]]) # Err

-----------------------------------------------------------------------------
(* Ops. *)

OnDisk(s) == [f \in ToSet(FilesOf(s)) |-> Objects(disk[f])]

\* An object that is written is listed from now on.
Listing(l, f, o) == [g \in DOMAIN l |-> IF g = f THEN l[g] \cup {o} ELSE l[g]]

RewriteBegins ==
  /\ writing = Nothing /\ writes < MaxWrites /\ writes' = writes + 1
  /\ \E f \in Files : \E i \in DOMAIN Contents[f] :
       LET c == Contents[f][i] IN
       /\ c # disk[f]
       /\ IF c = Missing \/ c = Oversized \/ c = <<>>
          THEN disk' = [disk EXCEPT ![f] = c] /\ writing' = Nothing
          ELSE disk' = [disk EXCEPT ![f] = <<>>] /\ writing' = [file |-> f, rest |-> c]
  /\ UNCHANGED <<live, loading, conns, listed, overlaid, loads>>

RewriteGoesOn ==
  /\ writing # Nothing
  /\ LET f == writing.file
         o == Head(writing.rest)
     IN  /\ disk' = [disk EXCEPT ![f] = Append(@, o)]
         /\ listed' = [s \in Stores |-> Listing(listed[s], f, o)]
         /\ loading' = [t \in Loaders |-> IF loading[t] = Nothing THEN Nothing
                          ELSE [loading[t] EXCEPT !.listed = Listing(@, f, o)]]
  /\ writing' = IF Len(writing.rest) = 1 THEN Nothing ELSE [writing EXCEPT !.rest = Tail(@)]
  /\ UNCHANGED <<live, conns, overlaid, writes, loads>>

-----------------------------------------------------------------------------
(* reload and reload_from_dir. *)

ReloadBegins(t) ==
  /\ loading[t] = Nothing /\ loads < MaxLoads /\ loads' = loads + 1
  /\ \E s \in Stores :
       /\ loading' = [loading EXCEPT ![t] =
            [store |-> s, left |-> FilesOf(s), got |-> [f \in {} |-> Nothing], listed |-> OnDisk(s)]]
       /\ overlaid' = IF \E u \in Loaders : loading[u] # Nothing /\ loading[u].store = s
                      THEN overlaid \cup {s} ELSE overlaid
  /\ UNCHANGED <<disk, writing, live, conns, listed, writes>>

\* The files are read one after the other.
ReadFile(t) ==
  /\ loading[t] # Nothing /\ loading[t].left # <<>>
  /\ LET f == Head(loading[t].left)
     IN  loading' = [loading EXCEPT ![t].left = Tail(@), ![t].got = Put(@, f, disk[f])]
  /\ UNCHANGED <<disk, writing, live, conns, listed, overlaid, writes, loads>>

Loaded(t) == loading[t] # Nothing /\ loading[t].left = <<>>

\* What the store's earlier reloads and this one agree was listed since they began.
Since(t) == [f \in DOMAIN loading[t].listed |-> loading[t].listed[f] \cap listed[loading[t].store][f]]

\* Mutant: the keys are added to those that are trusted.
SwapAdds(t) ==
  /\ Loaded(t)
  /\ LET s == loading[t].store
         fresh == Build(s, loading[t].got)
     IN  /\ fresh # Err
         /\ live' = [live EXCEPT ![s] = IF s = "tls" THEN fresh
                                        ELSE [a \in DOMAIN fresh |-> fresh[a] \cup @[a]]]
         /\ listed' = [listed EXCEPT ![s] = Since(t)]
  /\ loading' = [loading EXCEPT ![t] = Nothing]
  /\ UNCHANGED <<disk, writing, conns, overlaid, writes, loads>>

\* Built whole, then swapped in under the write lock.
Swap(t) ==
  /\ Loaded(t)
  /\ LET s == loading[t].store
         fresh == Build(s, loading[t].got)
     IN  /\ fresh # Err
         /\ live' = [live EXCEPT ![s] = fresh]
         /\ listed' = [listed EXCEPT ![s] = Since(t)]
  /\ loading' = [loading EXCEPT ![t] = Nothing]
  /\ UNCHANGED <<disk, writing, conns, overlaid, writes, loads>>

\* Any error leaves what is in force in force.
ReloadFails(t) ==
  /\ Loaded(t) /\ Build(loading[t].store, loading[t].got) = Err
  /\ loading' = [loading EXCEPT ![t] = Nothing]
  /\ UNCHANGED <<disk, writing, live, conns, listed, overlaid, writes, loads>>

-----------------------------------------------------------------------------
(* The listener. *)

Listed(s, paths) == (UNION {listed[s][p] : p \in ToSet(paths)}) \ {Bad}

\* What ops have put in the files since could admit the client.
Admissible(c) ==
  /\ c[1] \in Listed("tls", TlsFiles.ca)
  /\ TlsFiles.crl # <<>> =>
       \E l \in Listed("tls", TlsFiles.crl) : l[1] = c[1] /\ c[2] \notin l[2]

\* current(): the configuration this connection's handshake will use.  Connections
\* share nothing, so one is followed.
TakeConfig(c) ==
  /\ \A d \in Clients : conns[d].pc = "none"
  /\ conns' = [conns EXCEPT ![c] =
       [pc |-> "taken", cfg |-> live.tls, alone |-> "tls" \notin overlaid, could |-> Admissible(c)]]
  /\ UNCHANGED <<disk, writing, live, loading, listed, overlaid, writes, loads>>

\* accept and connect: the handshake is complete before a frame is read.
Handshakes(c) ==
  /\ conns[c].pc = "taken"
  /\ conns' = [conns EXCEPT ![c] = [@ EXCEPT !.cfg = Nothing, !.pc =
       IF ClientAccepted(conns[c].cfg.roots, conns[c].cfg.crls, c) THEN "served" ELSE "refused"]]
  /\ UNCHANGED <<disk, writing, live, loading, listed, overlaid, writes, loads>>

TrustInit ==
  /\ disk = [f \in Files |-> Contents[f][1]] /\ writing = Nothing
  /\ live = [tls |-> BuildTls(disk), keys |-> BuildKeys(disk)]
  /\ loading = [t \in Loaders |-> Nothing]
  /\ conns = [c \in Clients |-> [pc |-> "none", cfg |-> Nothing, could |-> FALSE, alone |-> TRUE]]
  /\ listed = [s \in Stores |-> OnDisk(s)] /\ overlaid = {}
  /\ writes = 0 /\ loads = 0

TrustNext ==
  \/ RewriteBegins \/ RewriteGoesOn
  \/ \E t \in Loaders : ReloadBegins(t) \/ ReadFile(t) \/ Swap(t) \/ ReloadFails(t)
  \/ \E c \in Clients : TakeConfig(c) \/ Handshakes(c)

TrustSpec == TrustInit /\ [][TrustNext]_trustVars

-----------------------------------------------------------------------------
(* Properties. *)

\* Whatever the reload met on disk, the listener enforces mutual authentication,
\* and revocation if it was configured, with a key that fits its certificate.
NeverDisarmed ==
  /\ live.tls # Err /\ live.keys # Err
  /\ live.tls.roots # {} /\ (TlsFiles.crl # <<>> => live.tls.crls # {})

\* Nothing is trusted again by itself: what is in force was in the files at some
\* time since the last reload that succeeded began, if reloads do not overlap.
StaleNeverReturns ==
  /\ "keys" \notin overlaid => \A a \in DOMAIN live.keys : live.keys[a] \subseteq listed["keys"][a]
  /\ "tls" \notin overlaid => /\ live.tls.roots \subseteq Listed("tls", TlsFiles.ca)
                              /\ live.tls.crls \subseteq Listed("tls", TlsFiles.crl)

\* A client is served only if, when its connection was accepted, what ops had put
\* in the files since the last successful reload could admit it.
ServedWasTrusted ==
  \A c \in Clients : conns[c].pc = "served" /\ conns[c].alone => conns[c].could

\* Whatever reloads meet, the channel is guarded by what ops have put in place.
TrustKept == NeverDisarmed /\ StaleNeverReturns /\ ServedWasTrusted
=============================================================================
