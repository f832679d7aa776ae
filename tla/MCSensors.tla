------------------------------ MODULE MCSensors -----------------------------
(* What the agent collects and where it writes it: the sensors of a host with *)
(* two pids, the inventory of a host with two processes, two packages and two *)
(* model directories, and the event file.  They share no state: a behaviour   *)
(* is one of its subject, and the others stay as they began.                  *)
EXTENDS Etw, EventFile, Inventory

VARIABLE subject

Facts(l, s, i) == [lolbin |-> l, suspiciousDir |-> s, interpreter |-> i, tool |-> None]
Args(a, t) == [abuse |-> a, tool |-> t]

\* A downloader run from a temporary directory; an interpreter running a tool
\* of the catalogue; the same interpreter running something else.
Curl == [image |-> Facts(TRUE, TRUE, FALSE), cmdline |-> Args(TRUE, None)]
Aider == [image |-> Facts(FALSE, FALSE, TRUE), cmdline |-> Args(FALSE, "aider")]
Python == [image |-> Facts(FALSE, FALSE, TRUE), cmdline |-> Args(FALSE, None)]

MCProgram ==
  [m \in Monitor |-> CASE m = "procmon" -> {Curl, Python}
                       [] m = "aiusage" -> {Aider, Python}
                       [] OTHER         -> {Python}]

MCDestination ==
  [m \in Monitor |->
     {[addr |-> "public", port |-> "suspicious"]} \cup
     (IF m = "aiusage" THEN {} ELSE {[addr |-> "loopback", port |-> "common"],
                                     [addr |-> "v6", port |-> "common"]})]

MCOpening ==
  {[path |-> [has |-> {"/usr/bin/"}, ext |-> ".so", lib |-> TRUE], kind |-> "open"],
   [path |-> [has |-> {".ssh/id_"}, ext |-> "none", lib |-> FALSE], kind |-> "write"],
   [path |-> None, kind |-> "open"]}

\* With one entry in its table, aiusage's eviction has no choice the time could make.
MCTime == [m \in Monitor |-> IF m = "procmon" THEN {0, 1} ELSE {0}]

MCMaxOps == [m \in Monitor |-> IF m = "filemon" THEN 5 ELSE 4]

-----------------------------------------------------------------------------
\* Lines that stay below the limit, reach it, and exceed it by themselves.
MCLineSize == <<1, 2, 1, 3, 1, 2, 5, 1>>

-----------------------------------------------------------------------------
MCRuntimeOf == [n \in {"ollama"} |-> "Ollama"]
MCPortRuntime == [p \in {11434} |-> "Ollama"]

\* A package whose libraries change with its version.
MCLibs ==
  [p \in {"openssl", "zlib"} |->
     IF p = "zlib" THEN [v \in {"1"} |-> {"libz"}]
     ELSE [v \in {"1", "2"} |-> IF v = "1" THEN {"libssl.1"} ELSE {"libssl.2"}]]

\* The second directory lies in the first, and the third is too deep for it.
MCRoots == <<"/m", "/m/a">>
MCTree ==
  [d \in {"/m", "/m/a", "/m/a/b"} |->
     CASE d = "/m"   -> {"/m/a", "/m/l"}
       [] d = "/m/a" -> {"/m/a/b", "/m/a/y.bin"}
       [] OTHER      -> {"/m/a/b/z.pt"}]
MCKind ==
  [e \in UNION {MCTree[d] : d \in DOMAIN MCTree} |->
     CASE e \in DOMAIN MCTree -> "dir" [] e = "/m/l" -> "symlink" [] OTHER -> "model"]

Line(f, v) == [field |-> f, value |-> v]
DpkgLines == {Line("blank", ""), Line("Package", "a"), Line("Package", "b"), Line("Version", "1"),
              Line("Status", "installed"), Line("Status", "removed")}
RegLines == {Line("HKEY", "k"), Line("DisplayName", "a"), Line("DisplayName", ""),
             Line("DisplayName_Localized", "r"), Line("DisplayVersion", "1"), Line("other", "x")}
MCLines == [1..5 -> DpkgLines] \cup [1..5 -> RegLines]
MCWeights == UNION {[1..n -> {0, 1}] : n \in 0..5}

-----------------------------------------------------------------------------
collectionVars == <<subject, sensorVars, fileVars, inventoryVars>>

SensorsRest == monitor = "netmon" /\ backend = "stub" /\ SensorsInit
InventoryRest == given = NoInput /\ sys = [StartingHost EXCEPT !.os = "linux"] /\ InventoryInit

CollectionInit ==
  \/ subject = "sensors" /\ InventoryRest /\ FileInit /\ SensorsInit
  \/ subject = "file" /\ InventoryRest /\ SensorsRest /\ FileInit
  \/ subject = "inventory" /\ SensorsRest /\ FileInit /\ InventoryInit

CollectionNext ==
  /\ UNCHANGED subject
  /\ \/ subject = "sensors" /\ SensorsNext /\ UNCHANGED <<fileVars, inventoryVars>>
     \/ subject = "file" /\ FileNext /\ UNCHANGED <<sensorVars, inventoryVars>>
     \/ subject = "inventory" /\ InventoryNext /\ UNCHANGED <<sensorVars, fileVars>>

CollectionSpec == CollectionInit /\ [][CollectionNext]_collectionVars
=============================================================================
