------------------------------ MODULE MCServer ------------------------------
(* The server's programs and what they rest on: version comparison, ingest,   *)
(* the trust of the control channel, the threat feed, and the frames between  *)
(* the two ends.  They share no state: a behaviour is one of its subject, and *)
(* the others stay as they began.                                             *)
EXTENDS Ingest, Trust, Feed, Framing

CONSTANTS i1, i2

VARIABLE subject

-----------------------------------------------------------------------------
(* Versions of up to VersionLen of these characters, with their code points. *)

MCRank ==
  [c \in {"0", "1", "2", "a", ".", "~", "^", "-", ":", "+", "v"} |->
     CASE c = "0" -> 48 [] c = "1" -> 49 [] c = "2" -> 50 [] c = "a" -> 97
       [] c = "." -> 46 [] c = "~" -> 126 [] c = "^" -> 94 [] c = "-" -> 45 [] c = ":" -> 58
       [] c = "+" -> 43 [] c = "v" -> 118]

Ev(k, v) == [kind |-> k, at |-> <<v>>]
MCRangeEvents ==
  {<<Ev("introduced", "0"), Ev("fixed", "1")>>, <<Ev("introduced", "1"), Ev("fixed", "2")>>,
   <<Ev("introduced", "1")>>, <<Ev("introduced", "0"), Ev("last_affected", "1")>>,
   <<Ev("introduced", "0"), Ev("fixed", "1"), Ev("introduced", "2")>>}

-----------------------------------------------------------------------------
(* One host that is clean, flawed or under attack, and two programs that run. *)

Adv(id, fam, n, es, sc, mat) ==
  [id |-> id, family |-> fam, name |-> n, versions |-> {},
   ranges |-> <<[type |-> "ECOSYSTEM", events |-> es]>>, score |-> sc, maturity |-> mat]
MCOsv ==
  <<<<Adv("CVE-2022-3602", "Debian", "openssl", <<Ev("introduced", "0"), Ev("fixed", "2")>>, 75, "functional"),
      Adv("CVE-2022-3602", "Ubuntu", "openssl", <<Ev("introduced", "0"), Ev("fixed", "1")>>, 75, "functional")>>,
    <<Adv("CVE-B", "Debian", "glibc", <<Ev("introduced", "0")>>, 50, "rumoured"),
      Adv("CVE-C", "Debian", "zlib", <<Ev("introduced", "0"), Ev("fixed", "2")>>, 60, "poc")>>>>
MCNvd ==
  <<<<[id |-> "CVE-W", product |-> "putty", aliases |-> {"putty"},
       ranges |-> <<[type |-> "SEMVER", events |-> <<Ev("fixed", "2")>>]>>, score |-> 59, maturity |-> "poc"]>>>>
MCEpssLines ==
  <<[kind |-> "comment"], [kind |-> "row", cve |-> "CVE-2022-3602", epss |-> 9],
    [kind |-> "row", cve |-> "CVE-C", epss |-> 1]>>
MCInvocations == {{"--store", "--osv", "--nvd", "--enrich"}, {"--osv"}}

Comp(n, v, l) ==
  [name |-> n, version |-> <<v>>, source |-> IF n = "putty" THEN "registry" ELSE "dpkg", libs |-> l]
Pkg(n, v) == [name |-> n, version |-> v]
Snap(pkgs, hash) ==
  [packages |-> pkgs,
   files |-> <<[path |-> "/etc/ssh/sshd_config", exists |-> TRUE, sha256 |-> "digest1"],
               [path |-> "/etc/passwd", exists |-> TRUE, sha256 |-> hash]>>]
Act(c, w, rs) == [class |-> c, what |-> w, rules |-> rs]

Clean ==
  [os |-> "Debian", comps |-> {Comp("openssl", "2", {"libssl"})}, loads |-> {"libssl"}, acts |-> {},
   snapshot |-> Snap(<<Pkg("openssl", "3.0.14")>>, "digest2")]
Flawed ==
  [os |-> "Debian",
   comps |-> {Comp("openssl", "1", {"libssl"}), Comp("glibc", "1", {"libc"}),
              Comp("zlib", "1", {"libz"}), Comp("putty", "1", {})},
   loads |-> {"libz", "libc"}, acts |-> {},
   snapshot |-> Snap(<<Pkg("openssl", "3.0.14"), Pkg("telnet", "0")>>, "digest2")]
Attacked ==
  [os |-> "Debian", comps |-> {}, loads |-> {},
   acts |-> {Act("process", <<"sh">>, {"lolbin", "lolbin_in_suspicious_path"}),
             Act("network", <<"c2">>, {"suspicious_port_to_external"}),
             Act("file", <<"/etc/passwd">>, {"write_to_sensitive_config"}),
             Act("correlation", <<"sh", "c2">>, {"suspicious_process_suspicious_connection"}),
             Act("correlation", <<"vi", "c2">>, {})},
   snapshot |-> Snap(<<Pkg("openssl", "3.0.14")>>, "other")]

MCHost == [clean |-> Clean, flawed |-> Flawed, attacked |-> Attacked]
MCProgram == [r \in Runs |-> IF r = "r1" THEN "torda-ingest" ELSE "findings-from-events"]
MCOverrides ==
  ("password-max-days" :> [enabled |-> FALSE, weight |-> Unset])
  @@ ("telnet-not-installed" :> [enabled |-> TRUE, weight |-> 40])

-----------------------------------------------------------------------------
(* Files whose successive contents revoke, rotate, or are not readable. *)

MCTlsFiles == [ca |-> <<"ca">>, crl |-> <<"crl">>, chain |-> "chain", key |-> "key"]
MCContents ==
  [f \in {"ca", "crl", "chain", "key", "alice"} |->
     CASE f = "ca"    -> <<<<"A">>, <<"A", "B">>>>
       [] f = "crl"   -> <<<<<<"A", {}>>>>, <<<<"A", {1}>>, <<"B", {}>>>>, Missing>>
       [] f = "chain" -> <<<<<<"A", "k1">>>>, <<<<"B", "k2">>>>>>
       [] f = "key"   -> <<<<"k1">>>>
       [] OTHER       -> <<<<"old">>, <<"new">>, <<Bad>>, Missing>>]
MCTrustFiles == <<"alice">>
MCClients == {<<"A", 1>>}

-----------------------------------------------------------------------------
(* Releases of two tiers, one signed by a stranger, one that leaves its directory. *)

Rel(v, t, k, files) == [manifest |-> ManifestOf(files, v, t), files |-> files, key |-> k]
MCReleases ==
  <<Rel(1, "Community", "feed", [n \in {"osv", "epss", "kev"} |-> <<n, 1>>]),
    Rel(2, "Enterprise", "feed", [n \in {"osv", "epss", "kev", "nvd"} |-> <<n, 2>>]),
    Rel(3, "Community", "stranger",
        [n \in {"osv", "epss"} |-> IF n = "osv" THEN Garbled ELSE <<n, 3>>]),
    [manifest |-> [version |-> 4, tier |-> "Community",
                   entries |-> <<<<"osv", <<"osv", 4>>>>, <<"../epss", <<"epss", 4>>>>>>],
     files |-> "osv" :> <<"osv", 4>>, key |-> "feed"]>>
MCComplete == <<MCReleases[2]>>
MCTokens ==
  {[issuer |-> "iss", tier |-> "Enterprise", expires |-> 0],
   [issuer |-> "other", tier |-> "Enterprise", expires |-> 1]}

-----------------------------------------------------------------------------
(* Frames that are empty, as large as allowed, and larger; noise that is not a frame. *)

MCPayloads == {<<>>, <<0>>, <<1, 2>>, <<0, 1, 2, 0, 1>>, <<2, 2, 2, 2, 2, 2>>}
MCNoise == {<<2, 2>>, <<0>>, <<0, 1>>}

-----------------------------------------------------------------------------
serverVars == <<subject, versionVars, ingestVars, trustVars, feedVars, frameVars>>

\* The components with more than one initial state, as one of them.
IngestRest == current = [h \in Hosts |-> "clean"] /\ IngestInit
FramingRest == carrier = "tls" /\ FramingInit

ServerInit ==
  /\ TrustInit /\ FeedInit /\ VersionsInit
  /\ \/ subject = "ingest" /\ FramingRest /\ IngestInit
     \/ subject = "frames" /\ IngestRest /\ FramingInit
     \/ subject \in {"versions", "trust", "feed"} /\ FramingRest /\ IngestRest

ServerNext ==
  /\ UNCHANGED subject
  /\ \/ subject = "versions" /\ VersionsNext
        /\ UNCHANGED <<ingestVars, trustVars, feedVars, frameVars>>
     \/ subject = "ingest" /\ IngestNext
        /\ UNCHANGED <<versionVars, trustVars, feedVars, frameVars>>
     \/ subject = "trust" /\ TrustNext
        /\ UNCHANGED <<versionVars, ingestVars, feedVars, frameVars>>
     \/ subject = "feed" /\ FeedNext
        /\ UNCHANGED <<versionVars, ingestVars, trustVars, frameVars>>
     \/ subject = "frames" /\ FramingNext
        /\ UNCHANGED <<versionVars, ingestVars, trustVars, feedVars>>

ServerSpec == ServerInit /\ [][ServerNext]_serverVars
\* Installers are alike.
MCSymmetry == Permutations({i1, i2})

\* The feed by itself.
FeedSubject == ServerInit /\ subject = "feed" /\ [][ServerNext]_serverVars
=============================================================================
