-------------------------------- MODULE Feed --------------------------------
(***************************************************************************)
(* The enrichment feed (crates/feed, server/feed-live): a publisher writes *)
(* signed bundles into a directory, installers verify a bundle and swap it *)
(* into the store, and the ingest loads its evidence from the store        *)
(* (BundledEnrichment::load_from_feed_store).  None of them holds a lock.  *)
(*                                                                         *)
(* A file's content stands for its digest too, and a signature is the pair *)
(* of its key and the manifest it was made over.                           *)
(***************************************************************************)
EXTENDS Naturals, Sequences, FiniteSets, SequencesExt, Collections

CONSTANTS
  Releases,     \* what publishers publish, the first at the start:
                \*   [manifest: [version, tier, entries], files: name -> content, key]
  TrustedKeys,  \* the keys of the FeedVerifier
  MaxEntries,   \* MAX_MANIFEST_ENTRIES
  PlainNames,   \* names without a path separator
  Tokens,       \* entitlement tokens: [issuer, tier, expires]
  Issuer,       \* the key entitlements are verified against
  Installers,
  MaxPublished, \* bound: releases published
  MaxInstalls,  \* bound: installations
  MaxStoreFaults, \* bound: crashes and failed calls
  Garbled,      \* content that does not parse
  Empty

\* A manifest lists names with contents, and Empty is no directory.
ASSUME FeedAssumption ==
  /\ 1 \in DOMAIN Releases
  /\ \A i \in DOMAIN Releases :
       LET entries == ToSet(Releases[i].manifest.entries) IN
       /\ Releases[i].manifest.entries \in Seq(entries)
       /\ \A e \in entries : e = <<e[1], e[2]>>
       /\ Empty \notin [{e[1] : e \in entries} -> {e[2] : e \in entries}]

VARIABLES
  dir,        \* the bundle directory: [manifest, sig, files]
  publishing, \* what is left of the release being written: [todo, release], or Empty
  content,    \* the store's content directory: name -> content, or Empty
  marker,     \* state.json: the manifest it was written for, or Empty
  inst,       \* installer -> [pc, manifest, todo, staging, clean]
  load,       \* the ingest's load: [pc, manifest, todo, got, clean]
  suspect,    \* no clean installation has completed since the store was last disturbed
  counts      \* [published, installs, faults]

feedVars == <<dir, publishing, content, marker, inst, load, suspect, counts>>

Required == <<"osv", "epss", "kev">>
KnownContent == {"osv", "nvd", "epss", "kev"}
Idle == [pc |-> "idle", manifest |-> Empty, todo |-> << >>, staging |-> << >>, clean |-> TRUE]
NoFiles == [n \in {} |-> Empty]
Unloaded == [pc |-> "idle", manifest |-> Empty, todo |-> << >>, got |-> NoFiles, clean |-> FALSE]

\* manifest_from_content_dir: the known files that are there; none is an error.
ManifestOf(files, version, tier) ==
  [version |-> version, tier |-> tier,
   entries |-> SetToSeq({<<n, files[n]>> : n \in DOMAIN files \cap KnownContent})]

-----------------------------------------------------------------------------
(* The publisher: write_signed_bundle into the directory installers read. *)

\* Whoever is reading the directory may be given a mix of two releases.
Disturbed == [p \in Installers |-> IF inst[p].pc \in {"idle", "connected"} THEN inst[p] ELSE [inst[p] EXCEPT !.clean = FALSE]]

PublishBegins ==
  /\ publishing = Empty /\ counts.published < MaxPublished
  /\ \E i \in DOMAIN Releases :
       publishing' = [todo |-> SetToSeq(DOMAIN Releases[i].files), release |-> Releases[i]]
  /\ counts' = [counts EXCEPT !.published = @ + 1]
  /\ UNCHANGED <<dir, content, marker, inst, load, suspect>>

PublishFile ==
  /\ publishing # Empty /\ publishing.todo # << >>
  /\ LET n == Head(publishing.todo)
     IN  dir' = [dir EXCEPT !.files = Put(@, n, publishing.release.files[n])]
  /\ publishing' = [publishing EXCEPT !.todo = Tail(@)] /\ inst' = Disturbed
  /\ UNCHANGED <<content, marker, load, suspect, counts>>

PublishManifest ==
  /\ publishing # Empty /\ publishing.todo = << >>
  /\ dir.manifest # publishing.release.manifest
  /\ dir' = [dir EXCEPT !.manifest = publishing.release.manifest] /\ inst' = Disturbed
  /\ UNCHANGED <<publishing, content, marker, load, suspect, counts>>

PublishSignature ==
  /\ publishing # Empty /\ publishing.todo = << >>
  /\ dir.manifest = publishing.release.manifest
  /\ dir' = [dir EXCEPT !.sig = <<publishing.release.key, dir.manifest>>] /\ inst' = Disturbed
  /\ publishing' = Empty
  /\ UNCHANGED <<content, marker, load, suspect, counts>>

-----------------------------------------------------------------------------
(* FeedStore::install, called by torda-feed install and by the sources. *)

Fails(p) == inst' = [inst EXCEPT ![p] = Idle]

\* verify_entitlement and LiveFeedSource::connect: a token of the issuer that has
\* not expired and grants the tier.
Entitled(token, now) == token.issuer = Issuer /\ now <= token.expires /\ token.tier = "Enterprise"

Connect(p) ==
  /\ inst[p].pc = "idle" /\ counts.installs < MaxInstalls
  /\ \E token \in Tokens, now \in 0..1 : Entitled(token, now)
  /\ inst' = [inst EXCEPT ![p].pc = "connected"]
  /\ UNCHANGED <<dir, publishing, content, marker, load, suspect, counts>>

\* fetch_bundle of the static source, which asks for nothing, and of the live one,
\* which has asked: the directory, if it has a manifest.  The installation starts.
Fetch(p) ==
  /\ inst[p].pc \in {"idle", "connected"} /\ counts.installs < MaxInstalls
  /\ dir.manifest # Empty
  /\ LET others == {q \in Installers \ {p} : inst[q].pc \notin {"idle", "connected"}}
     IN  inst' = [q \in Installers |->
           IF q = p THEN [Idle EXCEPT !.pc = "manifest", !.clean = others = {} /\ publishing = Empty]
           ELSE IF q \in others THEN [inst[q] EXCEPT !.clean = FALSE] ELSE inst[q]]
  /\ counts' = [counts EXCEPT !.installs = @ + 1]
  /\ UNCHANGED <<dir, publishing, content, marker, load, suspect>>

\* Mutant: a feed that the marker names is taken to be installed.
ReadManifestKnown(p) ==
  /\ inst[p].pc = "manifest"
  /\ IF dir.manifest = marker
     THEN Fails(p) /\ suspect' = (suspect /\ ~inst[p].clean)
     ELSE /\ inst' = [inst EXCEPT ![p].pc = "signature", ![p].manifest = dir.manifest]
          /\ UNCHANGED suspect
  /\ UNCHANGED <<dir, publishing, content, marker, load, counts>>

ReadManifest(p) ==
  /\ inst[p].pc = "manifest"
  /\ inst' = [inst EXCEPT ![p].pc = "signature", ![p].manifest = dir.manifest]
  /\ UNCHANGED <<dir, publishing, content, marker, load, suspect, counts>>

\* FeedVerifier::verify_manifest: over these canonical bytes, by a trusted key.
VerifyManifest(manifest, sig) == sig[1] \in TrustedKeys /\ sig[2] = manifest

\* The rest of verify_bundle that needs no file: the cap, and entries that are
\* plain file names and listed once.
WellFormed(entries) ==
  /\ Len(entries) <= MaxEntries
  /\ \A e \in ToSet(entries) : e[1] \in PlainNames
  /\ \A i, j \in DOMAIN entries : entries[i][1] = entries[j][1] => i = j

ReadSignature(p) ==
  /\ inst[p].pc = "signature"
  /\ LET man == inst[p].manifest
     IN  IF VerifyManifest(man, dir.sig) /\ WellFormed(man.entries)
         THEN inst' = [inst EXCEPT ![p].pc = "verify", ![p].todo = man.entries]
         ELSE Fails(p)
  /\ UNCHANGED <<dir, publishing, content, marker, load, suspect, counts>>

Matches(e) == e[1] \in DOMAIN dir.files /\ dir.files[e[1]] = e[2]

VerifyEntry(p) ==
  /\ inst[p].pc = "verify" /\ inst[p].todo # << >>
  /\ IF Matches(Head(inst[p].todo)) THEN inst' = [inst EXCEPT ![p].todo = Tail(@)] ELSE Fails(p)
  /\ UNCHANGED <<dir, publishing, content, marker, load, suspect, counts>>

Verified(p) ==
  /\ inst[p].pc = "verify" /\ inst[p].todo = << >>
  /\ inst' = [inst EXCEPT ![p].pc = "stage", ![p].todo = inst[p].manifest.entries, ![p].staging = NoFiles]
  /\ UNCHANGED <<dir, publishing, content, marker, load, suspect, counts>>

\* The file is copied as it is now, in a directory of this installation's own.
StageEntry(p) ==
  /\ inst[p].pc = "stage" /\ inst[p].todo # << >>
  /\ LET n == Head(inst[p].todo)[1]
     IN  IF n \in DOMAIN dir.files
         THEN inst' = [inst EXCEPT ![p].todo = Tail(@), ![p].staging = Put(@, n, dir.files[n])]
         ELSE Fails(p)
  /\ UNCHANGED <<dir, publishing, content, marker, load, suspect, counts>>

\* The content is no longer what a load has begun to read.
Unsettled == IF load.pc \in {"reading", "nvd"} THEN [load EXCEPT !.clean = FALSE] ELSE load

\* remove_dir_all: the files of the old content one by one, ...
RemoveFile(p) ==
  /\ inst[p].pc = "removing" \/ (inst[p].pc = "stage" /\ inst[p].todo = << >>)
  /\ content # Empty
  /\ \E n \in DOMAIN content : content' = Restrict(content, DOMAIN content \ {n})
  /\ suspect' = TRUE /\ load' = Unsettled /\ inst' = [inst EXCEPT ![p].pc = "removing"]
  /\ UNCHANGED <<dir, publishing, marker, counts>>

\* ... then the directory; or there was none.
RemoveOld(p) ==
  /\ inst[p].pc \in {"removing", "stranded"} \/ (inst[p].pc = "stage" /\ inst[p].todo = << >>)
  /\ content \in {Empty, NoFiles}
  /\ content' = Empty /\ suspect' = TRUE /\ load' = Unsettled
  /\ inst' = [inst EXCEPT ![p].pc = "removed"]
  /\ UNCHANGED <<dir, publishing, marker, counts>>

\* Two that remove the same directory may stop each other, and one whose directory
\* has been replaced finds the new one full.
RemoveFails(p) ==
  /\ inst[p].pc \in {"removing", "stranded"}
  /\ \E q \in Installers \ {p} : inst[q].pc \notin {"idle", "connected"}
  /\ Fails(p)
  /\ UNCHANGED <<dir, publishing, content, marker, load, suspect, counts>>

\* rename of the staging directory, which another installer's content stops; an
\* empty directory in its place need not.  Whoever was removing what was there is
\* left with a directory that has no name.
SwapIn(p) ==
  /\ inst[p].pc = "removed"
  /\ \/ /\ content \in {Empty, NoFiles}
        /\ content' = inst[p].staging /\ load' = Unsettled
        /\ inst' = [q \in Installers |->
             IF q = p THEN [inst[q] EXCEPT !.pc = "swapped", !.staging = << >>]
             ELSE IF inst[q].pc = "removing" THEN [inst[q] EXCEPT !.pc = "stranded"] ELSE inst[q]]
     \/ content # Empty /\ Fails(p) /\ UNCHANGED <<content, load>>
  /\ UNCHANGED <<dir, publishing, marker, suspect, counts>>

\* state.json, by rename; the installation has succeeded.
Commit(p) ==
  /\ inst[p].pc = "swapped" /\ Fails(p)
  /\ marker' = inst[p].manifest /\ suspect' = ~inst[p].clean
  /\ UNCHANGED <<dir, publishing, content, load, counts>>

\* The installer dies, or a rename or write fails, and what it did stays.
Interrupted(p) ==
  /\ inst[p].pc \in {"stage", "removing", "removed", "swapped"} /\ counts.faults < MaxStoreFaults
  /\ counts' = [counts EXCEPT !.faults = @ + 1] /\ Fails(p)
  /\ UNCHANGED <<dir, publishing, content, marker, load, suspect>>

-----------------------------------------------------------------------------
(* BundledEnrichment::load_from_feed_store. *)

\* active_version: without one the load fails.
LoadBegins ==
  /\ load.pc = "idle" /\ marker # Empty
  /\ load' = [load EXCEPT !.pc = "reading", !.manifest = marker, !.todo = Required, !.clean = ~suspect]
  /\ UNCHANGED <<dir, publishing, content, marker, inst, suspect, counts>>

Present(n) == content # Empty /\ n \in DOMAIN content

\* A required file that is missing or does not parse fails the load, and the run
\* with it; another may start.
LoadFile ==
  /\ load.pc = "reading" /\ load.todo # << >>
  /\ LET n == Head(load.todo)
     IN  load' = IF Present(n) /\ content[n] # Garbled
                 THEN [load EXCEPT !.todo = Tail(@), !.got = Put(@, n, content[n])]
                 ELSE Unloaded
  /\ UNCHANGED <<dir, publishing, content, marker, inst, suspect, counts>>

\* The NVD snapshot is optional: without one the load has succeeded.
LoadEnds ==
  /\ load.pc = "reading" /\ load.todo = << >>
  /\ load' = [load EXCEPT !.pc = IF Present("nvd") THEN "nvd" ELSE "done"]
  /\ UNCHANGED <<dir, publishing, content, marker, inst, suspect, counts>>

\* Once seen it is required like the others.
LoadNvd ==
  /\ load.pc = "nvd"
  /\ load' = IF Present("nvd") /\ content["nvd"] # Garbled
             THEN [load EXCEPT !.pc = "done", !.got = Put(@, "nvd", content["nvd"])]
             ELSE Unloaded
  /\ UNCHANGED <<dir, publishing, content, marker, inst, suspect, counts>>

-----------------------------------------------------------------------------
FeedInit ==
  /\ LET r == Releases[1] IN dir = [manifest |-> r.manifest, sig |-> <<r.key, r.manifest>>, files |-> r.files]
  /\ publishing = Empty /\ content = Empty /\ marker = Empty
  /\ inst = [p \in Installers |-> Idle]
  /\ load = Unloaded
  /\ suspect = FALSE /\ counts = [published |-> 0, installs |-> 0, faults |-> 0]

FeedNext ==
  \/ PublishBegins \/ PublishFile \/ PublishManifest \/ PublishSignature
  \/ \E p \in Installers :
       \/ Connect(p) \/ Fetch(p) \/ ReadManifest(p) \/ ReadSignature(p) \/ VerifyEntry(p) \/ Verified(p)
       \/ StageEntry(p) \/ RemoveFile(p) \/ RemoveOld(p) \/ RemoveFails(p) \/ SwapIn(p) \/ Commit(p)
       \/ Interrupted(p)
  \/ LoadBegins \/ LoadFile \/ LoadEnds \/ LoadNvd

FeedSpec == FeedInit /\ [][FeedNext]_feedVars

-----------------------------------------------------------------------------
(* Properties. *)

Admitted == UNION {ToSet(Releases[i].manifest.entries) : i \in {j \in DOMAIN Releases : Releases[j].key \in TrustedKeys}}

\* Whatever was published and whoever installs, each file of the store is one that
\* a trusted publisher signed for, unless the bundle was rewritten as it was read:
\* it is verified at one reading and copied at another.
NothingUnverified ==
  \A p \in Installers :
    /\ inst[p].clean /\ inst[p].pc \in {"removing", "removed", "swapped"} =>
         LET files == IF inst[p].pc = "swapped" THEN content ELSE inst[p].staging
         IN  \A n \in DOMAIN files : <<n, files[n]>> \in Admitted

\* The commit marker names the content: an installation nobody disturbed repairs
\* whatever crashes, failed renames and overlapping installations left behind.
MarkerTrue ==
  ~suspect /\ marker # Empty =>
    /\ content # Empty
    /\ {<<n, content[n]>> : n \in DOMAIN content} = ToSet(marker.entries)

Evidence(manifest) == {e \in ToSet(manifest.entries) : e[1] \in KnownContent}
Obtained == {<<n, load.got[n]>> : n \in DOMAIN load.got}

\* A load that succeeds has the whole evidence of the version it is stamped with,
\* the optional snapshot too, and nothing else: if the store was sound when it began
\* and nobody took the content away under it.
LoadedWhole == load.pc = "done" /\ load.clean => Obtained = Evidence(load.manifest)

\* Through publishing, installing, crashing and loading at once: signed content from
\* an undisturbed installation, the content its marker names from the next one on,
\* and all of a version from a load beside which nothing was installed.
FeedKept == NothingUnverified /\ MarkerTrue /\ LoadedWhole

-----------------------------------------------------------------------------
(* What a comment in the code says and the code does not do. *)

\* BundledEnrichment, "never a silent empty/partial feed": what a load that succeeds
\* has obtained is what one release provides.
NeverPartial ==
  load.pc = "done" => \E i \in DOMAIN Releases : Obtained = Evidence(Releases[i].manifest)
=============================================================================
