----------------------------- MODULE ToolStore -----------------------------
(***************************************************************************)
(* The static tools of one architecture: a publisher packages what was     *)
(* built and uploads it (tools/publish.sh, tools/lib-pack.sh), a consumer  *)
(* with a checkout of its own makes sure a tool is there before it builds  *)
(* an image (build.sh, build-tools.sh).  A hash stands for what it is the  *)
(* hash of: a row of the manifest is the zip it was computed from.         *)
(***************************************************************************)
EXTENDS Naturals, Sequences

CONSTANTS
  Order,         \* the tools, in the order of AVAILABLE_TOOLS
  BinsOf,        \* tool_binaries, a sequence for each tool
  Builds,        \* what compiling a tool can yield
  Missing,       \* no such file
  Partial,       \* a file that an interrupted write left
  MaxRuns        \* runs of publish.sh

Elements(s) == {s[i] : i \in DOMAIN s}

Tools == Elements(Order)
Bins  == UNION {Elements(BinsOf[t]) : t \in Tools}
File  == Builds \cup {Missing, Partial}
Zip(t) == [Elements(BinsOf[t]) -> Builds \cup {Partial}]
NoZip  == [none |-> Missing]
Zips(t) == Zip(t) \cup {NoZip}

ASSUME ToolsAssumption ==
  /\ Order \in Seq(Tools) /\ Order # <<>>
  /\ \A i, j \in DOMAIN Order : Order[i] = Order[j] => i = j
  /\ \A t \in Tools : BinsOf[t] \in Seq(Elements(BinsOf[t])) /\ BinsOf[t] # <<>>
  /\ \A t, u \in Tools : t # u => Elements(BinsOf[t]) \cap Elements(BinsOf[u]) = {}
  /\ Missing # Partial /\ {Missing, Partial} \cap Builds = {}
  /\ MaxRuns \in Nat

VARIABLES
  (* the publisher's checkout, and its script *)
  built,      \* tools/output
  dist,       \* tools/dist
  manifest,   \* tools/releases.sha256
  ppc, turn, packaged, runs,
  unserved,   \* history: the tools a request about which was refused in this run
  (* the release *)
  asset,
  (* the consumer's checkout, and its script *)
  out, rows,
  cpc, tool, file,    \* file: the position in BinsOf[tool]
  temp,               \* the file .fetch-$ASSET
  answer              \* what ensure_tool has said of that tool

publisher == <<built, dist, manifest, ppc, turn, packaged, runs, unserved>>
consumer  == <<out, rows, cpc, tool, file, temp, answer>>
vars      == <<publisher, asset, consumer>>

TypeOK ==
  /\ built \in [Bins -> File] /\ out \in [Bins -> File]
  /\ \A t \in Tools : /\ dist[t] \in Zips(t) /\ manifest[t] \in Zips(t)
                      /\ asset[t] \in Zips(t) /\ rows[t] \in Zips(t)
  /\ ppc \in {"idle", "package", "release", "upload", "find", "delete", "again",
              "done", "failed"}
  /\ turn \in 0..Len(Order) + 1 /\ packaged \subseteq Tools
  /\ runs \in 0..MaxRuns /\ unserved \subseteq Tools
  /\ cpc \in {"idle", "fetch", "verify", "extract", "validate", "compile", "look"}
  /\ tool \in Tools /\ file \in 0..Len(BinsOf[tool]) + 1
  /\ temp \in Zips(tool) \cup {Partial}
  /\ answer \in {"none", "present", "fetched", "compiled", "missing"}

Init ==
  /\ built = [b \in Bins |-> Missing] /\ out = [b \in Bins |-> Missing]
  /\ dist = [t \in Tools |-> NoZip] /\ manifest = dist /\ asset = dist /\ rows = dist
  /\ ppc = "idle" /\ turn = 0 /\ packaged = {} /\ runs = 0 /\ unserved = {}
  /\ cpc = "idle" /\ tool = Order[1] /\ file = 0 /\ temp = NoZip
  /\ answer = "none"

(* A recipe compiles and checks, then installs one binary after another;   *)
(* an interruption leaves the rest as it was, and perhaps one half written. *)
Installed(dir, t, b, n) ==
  [f \in Bins |-> IF \E i \in 1..n : f = BinsOf[t][i] THEN b ELSE dir[f]]

Cut(dir, t, n) == [dir EXCEPT ![BinsOf[t][n]] = Partial]

-----------------------------------------------------------------------------
(* publish.sh *)

Resting == ppc \in {"idle", "done", "failed"}

BuildHere(t) ==
  /\ Resting /\ runs < MaxRuns
  /\ \E b \in Builds, n \in 1..Len(BinsOf[t]) :
       built' \in {Installed(built, t, b, n), Cut(Installed(built, t, b, n), t, n)}
  /\ UNCHANGED <<dist, manifest, ppc, turn, packaged, runs, unserved, asset, consumer>>

StartPublish ==
  /\ Resting /\ runs < MaxRuns
  /\ runs' = runs + 1 /\ ppc' = "package" /\ turn' = 1
  /\ packaged' = {} /\ unserved' = {}
  /\ UNCHANGED <<built, dist, manifest, asset, consumer>>

ZipOf(t) == [b \in Elements(BinsOf[t]) |-> built[b]]

(* A faulty variant: what is not there is packaged as well.                *)
PackageToolUnchecked ==
  /\ ppc = "package" /\ turn <= Len(Order)
  /\ turn' = turn + 1
  /\ LET t == Order[turn]
     IN /\ dist' = [dist EXCEPT ![t] = ZipOf(t)]
        /\ manifest' = [manifest EXCEPT ![t] = ZipOf(t)]
        /\ packaged' = packaged \cup {t}
  /\ UNCHANGED <<built, ppc, runs, unserved, asset, consumer>>

(* package_tool: only whether the files are there is asked of a native     *)
(* build.  manifest_add replaces the row; both are done before any upload. *)
PackageTool ==
  /\ ppc = "package" /\ turn <= Len(Order)
  /\ turn' = turn + 1
  /\ LET t == Order[turn]
     IN IF \E b \in Elements(BinsOf[t]) : built[b] = Missing
          THEN UNCHANGED <<dist, manifest, packaged>>
          ELSE /\ dist' = [dist EXCEPT ![t] = ZipOf(t)]
               /\ manifest' = [manifest EXCEPT ![t] = ZipOf(t)]
               /\ packaged' = packaged \cup {t}
  /\ UNCHANGED <<built, ppc, runs, unserved, asset, consumer>>

PackagingOver ==
  /\ ppc = "package" /\ turn > Len(Order)
  /\ ppc' = IF packaged = {} THEN "failed" ELSE "release"
  /\ UNCHANGED <<built, dist, manifest, turn, packaged, runs, unserved, asset, consumer>>

(* `set -e`: a curl that cannot connect ends the script, wherever its      *)
(* status is not that of a pipeline with `|| true`.                        *)
ConnectionLost ==
  /\ ppc \in {"release", "upload", "delete", "again"}
  /\ ppc = "upload" => turn <= Len(Order) /\ Order[turn] \in packaged
  /\ ppc' = "failed"
  /\ UNCHANGED <<built, dist, manifest, turn, packaged, runs, unserved, asset, consumer>>

(* The release is found or created; a refusal ends the script as well.     *)
FindRelease ==
  /\ ppc = "release"
  /\ ppc' = "upload" /\ turn' = 1
  /\ UNCHANGED <<built, dist, manifest, packaged, runs, unserved, asset, consumer>>

NextTool == ppc' = "upload" /\ turn' = turn + 1

NotServed == unserved' = unserved \cup {Order[turn]}

SkipUnpackaged ==
  /\ ppc = "upload" /\ turn <= Len(Order) /\ Order[turn] \notin packaged
  /\ NextTool
  /\ UNCHANGED <<built, dist, manifest, packaged, runs, unserved, asset, consumer>>

(* An answer with neither an id nor "already_exists" is a warning only.    *)
Post(t) ==
  /\ asset[t] = NoZip
  /\ asset' = [asset EXCEPT ![t] = dist[t]]
  /\ NextTool /\ UNCHANGED unserved

Refused == UNCHANGED asset /\ NextTool /\ NotServed

Upload ==
  /\ ppc = "upload" /\ turn <= Len(Order) /\ Order[turn] \in packaged
  /\ \/ Post(Order[turn])
     \/ Refused
     \/ /\ asset[Order[turn]] # NoZip
        /\ ppc' = "find" /\ UNCHANGED <<turn, unserved, asset>>
  /\ UNCHANGED <<built, dist, manifest, packaged, runs, consumer>>

(* The id of the asset is looked up; without it nothing is deleted.        *)
FindExisting ==
  /\ ppc = "find"
  /\ \/ ppc' = "delete" /\ UNCHANGED unserved
     \/ ppc' = "again" /\ NotServed
  /\ UNCHANGED <<built, dist, manifest, turn, packaged, runs, asset, consumer>>

(* A faulty variant: an asset of the same name is taken for the same asset. *)
DeleteExistingNot ==
  /\ ppc = "delete"
  /\ NextTool
  /\ UNCHANGED <<built, dist, manifest, packaged, runs, unserved, asset, consumer>>

DeleteExisting ==
  /\ ppc = "delete"
  /\ \/ asset' = [asset EXCEPT ![Order[turn]] = NoZip] /\ UNCHANGED unserved
     \/ UNCHANGED asset /\ NotServed
  /\ ppc' = "again"
  /\ UNCHANGED <<built, dist, manifest, turn, packaged, runs, consumer>>

UploadAgain ==
  /\ ppc = "again"
  /\ Post(Order[turn]) \/ Refused
  /\ UNCHANGED <<built, dist, manifest, packaged, runs, consumer>>

Published ==
  /\ ppc = "upload" /\ turn > Len(Order)
  /\ ppc' = "done"
  /\ UNCHANGED <<built, dist, manifest, turn, packaged, runs, unserved, asset, consumer>>

-----------------------------------------------------------------------------
(* The consumer: build.sh, its ensure_tool in mode auto, and fetch_tool.   *)

(* The manifest the publisher committed after a run is pulled.             *)
Pull ==
  /\ cpc = "idle" /\ ppc = "done" /\ rows # manifest
  /\ rows' = manifest
  /\ UNCHANGED <<publisher, asset, out, cpc, tool, file, temp, answer>>

Says(a) == answer' = a /\ cpc' = "idle" /\ file' = 0

EnsureTool(t) ==
  /\ cpc = "idle"
  /\ tool' = t
  /\ IF out[BinsOf[t][1]] # Missing THEN Says("present")
     ELSE cpc' = "fetch" /\ file' = 0 /\ answer' = "none"
  /\ UNCHANGED <<publisher, asset, out, rows, temp>>

FetchFails == cpc' = "compile" /\ temp' = NoZip /\ file' = 0

(* The download may fail, or be of the bytes that are there now.           *)
FetchTool ==
  /\ cpc = "fetch"
  /\ \/ FetchFails
     \/ /\ rows[tool] # NoZip /\ asset[tool] # NoZip
        /\ temp' \in {asset[tool], Partial}
        /\ cpc' = "verify" /\ UNCHANGED file
  /\ UNCHANGED <<publisher, asset, out, rows, tool, answer>>

(* A faulty variant: the hash is printed and not compared.                 *)
VerifyNothing ==
  /\ cpc = "verify"
  /\ IF temp # Partial THEN cpc' = "extract" /\ file' = 1 /\ UNCHANGED temp
     ELSE FetchFails
  /\ UNCHANGED <<publisher, asset, out, rows, tool, answer>>

Verify ==
  /\ cpc = "verify"
  /\ IF temp = rows[tool] THEN cpc' = "extract" /\ file' = 1 /\ UNCHANGED temp
     ELSE FetchFails
  /\ UNCHANGED <<publisher, asset, out, rows, tool, answer>>

(* A faulty variant: without the rm, and without -o, what is there stays.  *)
ExtractKeeping ==
  /\ cpc = "extract" /\ file <= Len(BinsOf[tool])
  /\ LET b == BinsOf[tool][file]
     IN out' = [out EXCEPT ![b] = IF out[b] = Missing THEN temp[b] ELSE out[b]]
  /\ file' = file + 1
  /\ UNCHANGED <<publisher, asset, rows, cpc, tool, temp, answer>>

(* Each binary is removed, then extracted; when that fails the fetch does, *)
(* and the binaries before it stay.                                        *)
Extract ==
  /\ cpc = "extract" /\ file <= Len(BinsOf[tool])
  /\ LET b == BinsOf[tool][file]
     IN \/ /\ out' = [out EXCEPT ![b] = temp[b]]
           /\ file' = file + 1 /\ UNCHANGED <<cpc, temp>>
        \/ \E left \in {Missing, Partial} : out' = [out EXCEPT ![b] = left] /\ FetchFails
  /\ UNCHANGED <<publisher, asset, rows, tool, answer>>

ExtractedAll ==
  /\ cpc = "extract" /\ file > Len(BinsOf[tool])
  /\ cpc' = "validate" /\ temp' = NoZip
  /\ UNCHANGED <<publisher, asset, out, rows, tool, file, answer>>

(* `file` reads the head of a binary: half a file may pass, and may not.   *)
Validate ==
  /\ cpc = "validate"
  /\ \/ Says("fetched") /\ UNCHANGED temp
     \/ Partial \in {out[b] : b \in Elements(BinsOf[tool])}
        /\ FetchFails /\ UNCHANGED answer
  /\ UNCHANGED <<publisher, asset, out, rows, tool>>

(* The status of the recipe is not looked at, only its first binary is.    *)
Compile ==
  /\ cpc = "compile"
  /\ \/ \E b \in Builds, n \in 1..Len(BinsOf[tool]) : out' = Installed(out, tool, b, n)
     \/ UNCHANGED out
  /\ cpc' = "look"
  /\ UNCHANGED <<publisher, asset, rows, tool, file, temp, answer>>

Look ==
  /\ cpc = "look"
  /\ Says(IF out[BinsOf[tool][1]] = Missing THEN "missing" ELSE "compiled")
  /\ UNCHANGED <<publisher, asset, out, rows, tool, temp>>

(* ^C or a power cut; what is being written at that moment is cut short.   *)
Kill ==
  /\ cpc # "idle"
  /\ \/ UNCHANGED out
     \/ /\ cpc = "extract" /\ file <= Len(BinsOf[tool])
        /\ out' = Cut(out, tool, file)
     \/ /\ cpc = "compile"
        /\ \E b \in Builds, n \in 1..Len(BinsOf[tool]) :
             out' = Cut(Installed(out, tool, b, n), tool, n)
  /\ cpc' = "idle" /\ file' = 0 /\ temp' = NoZip
  /\ UNCHANGED <<publisher, asset, rows, tool, answer>>

-----------------------------------------------------------------------------
Publish ==
  \/ PackageTool \/ PackagingOver \/ FindRelease \/ SkipUnpackaged \/ Upload
  \/ FindExisting \/ DeleteExisting \/ UploadAgain \/ Published

Consume ==
  \/ FetchTool \/ Verify \/ Extract \/ ExtractedAll \/ Validate \/ Compile \/ Look

Next ==
  \/ \E t \in Tools : BuildHere(t) \/ EnsureTool(t)
  \/ StartPublish \/ Publish \/ ConnectionLost
  \/ Pull \/ Consume \/ Kill

Spec == Init /\ [][Next]_vars

-----------------------------------------------------------------------------
(* Properties *)

(* A tool is reported as fetched only with every one of its binaries being *)
(* that of the manifest's row, whatever was there, was interrupted, or was *)
(* published meanwhile.                                                    *)
FetchedIsTheRow ==
  [][answer' = "fetched" /\ answer # "fetched" =>
       \A b \in Elements(BinsOf[tool]) : out'[b] = rows[tool][b]]_vars

(* However many requests of a run of publish.sh were refused, and whatever *)
(* earlier runs left, a tool none of whose own requests was refused has at *)
(* the end the asset that its row of the manifest promises: a refusal at   *)
(* one tool, which is a warning only, costs no other.                      *)
ServedToolsConverge ==
  ppc = "done" => \A t \in packaged \ unserved : asset[t] = manifest[t]

=============================================================================
