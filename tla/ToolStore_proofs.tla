-------------------------- MODULE ToolStore_proofs --------------------------
(* Theorems about the tool store, for any tools, binaries and builds.      *)
EXTENDS ToolStore, TLAPS

LEMMA OrderFacts ==
  /\ Len(Order) \in Nat /\ DOMAIN Order = 1..Len(Order)
  /\ \A i \in 1..Len(Order) : Order[i] \in Tools
  /\ \A i, j \in 1..Len(Order) : Order[i] = Order[j] => i = j
  /\ \A t \in Tools : \E i \in 1..Len(Order) : t = Order[i]
  /\ Order[1] \in Tools
BY ToolsAssumption DEF Tools, Elements

LEMMA BinsFacts ==
  ASSUME NEW t \in Tools
  PROVE  /\ Len(BinsOf[t]) \in Nat
         /\ \A i \in 1..Len(BinsOf[t]) : BinsOf[t][i] \in Elements(BinsOf[t]) /\ BinsOf[t][i] \in Bins
         /\ \A b \in Elements(BinsOf[t]) : b \in Bins /\ \E i \in 1..Len(BinsOf[t]) : b = BinsOf[t][i]
<1>1. BinsOf[t] \in Seq(Elements(BinsOf[t]))
  BY ToolsAssumption
<1>2. DOMAIN BinsOf[t] = 1..Len(BinsOf[t]) /\ Len(BinsOf[t]) \in Nat
  BY <1>1
<1>3. \A b \in Elements(BinsOf[t]) : b \in Bins
  BY DEF Bins
<1>4. QED BY <1>2, <1>3 DEF Elements

-----------------------------------------------------------------------------
(* Publishing. *)

Uploading == {"upload", "find", "delete", "again"}

(* The release agrees with the manifest on every packaged tool the upload  *)
(* loop has passed without a refusal.                                      *)
Agrees(t) == t \in packaged \ unserved => asset[t] = manifest[t]

PublishInv ==
  /\ dist = manifest
  /\ asset = [t \in Tools |-> asset[t]] /\ manifest = [t \in Tools |-> manifest[t]]
  /\ turn \in Nat /\ unserved \subseteq Tools /\ packaged \subseteq Tools
  /\ ppc = "package" => turn > 0
  /\ ppc \in Uploading => turn > 0
  /\ ppc \in {"find", "delete", "again"} => turn <= Len(Order)
  /\ ppc \in Uploading =>
       \A i \in 1..Len(Order) : i < turn => Agrees(Order[i])
  /\ ServedToolsConverge

LEMMA PublishInvInit == Init => PublishInv
BY DEF Init, PublishInv, ServedToolsConverge, Uploading

LEMMA PackageToolKeeps == ASSUME PublishInv, PackageTool PROVE PublishInv'
<1>0. Order[turn] \in Tools
  BY OrderFacts DEF PublishInv, PackageTool
<1>1. CASE \E b \in Elements(BinsOf[Order[turn]]) : built[b] = Missing
  BY <1>1 DEF PackageTool, PublishInv, ServedToolsConverge, Uploading
<1>2. CASE ~ \E b \in Elements(BinsOf[Order[turn]]) : built[b] = Missing
  <2>1. dist' = [dist EXCEPT ![Order[turn]] = ZipOf(Order[turn])] /\ manifest' = dist'
    BY <1>2 DEF PackageTool, PublishInv
  <2>2. manifest' = [t \in Tools |-> manifest'[t]]
    BY <1>0, <2>1 DEF PublishInv
  <2>3. packaged' \subseteq Tools
    BY <1>0, <1>2 DEF PackageTool, PublishInv
  <2>4. QED
    BY <2>1, <2>2, <2>3 DEF PackageTool, PublishInv, ServedToolsConverge, Uploading
<1>3. QED BY <1>1, <1>2

LEMMA PostKeeps ==
  ASSUME PublishInv, ppc \in {"upload", "again"}, turn <= Len(Order), Post(Order[turn]),
         UNCHANGED <<dist, manifest, packaged>>
  PROVE  PublishInv'
<1>1. Order[turn] \in Tools /\ turn \in 1..Len(Order)
  BY OrderFacts DEF PublishInv, Uploading
<1>2. asset'[Order[turn]] = manifest[Order[turn]]
  BY <1>1 DEF Post, PublishInv
<1>3. \A t \in Tools : t # Order[turn] => asset'[t] = asset[t]
  BY <1>1 DEF Post, PublishInv
<1>4. asset' = [t \in Tools |-> asset'[t]]
  BY <1>1 DEF Post, PublishInv
<1>5. turn' = turn + 1 /\ unserved' = unserved /\ ppc' = "upload"
  BY DEF Post, NextTool, PublishInv
<1>6. ASSUME NEW i \in 1..Len(Order), i < turn' PROVE Agrees(Order[i])'
  <2>1. CASE i = turn BY <2>1, <1>2 DEF Agrees
  <2>2. CASE i < turn
    <3>1. Order[i] \in Tools /\ Order[i] # Order[turn]
      BY <2>2, <1>1, OrderFacts
    <3>2. Agrees(Order[i]) BY <2>2, <1>5, <1>6 DEF PublishInv, Uploading
    <3>3. QED BY <1>5, <3>1, <3>2, <1>3 DEF Agrees
  <2>3. QED BY <2>1, <2>2, <1>5, <1>6, OrderFacts DEF PublishInv
<1>7. QED
  BY <1>4, <1>5, <1>6, OrderFacts DEF PublishInv, ServedToolsConverge, Uploading

LEMMA RefusedKeeps ==
  ASSUME PublishInv, ppc \in {"upload", "again"}, turn <= Len(Order), Refused,
         UNCHANGED <<dist, manifest, packaged>>
  PROVE  PublishInv'
<1>1. turn \in 1..Len(Order) /\ Order[turn] \in Tools
  BY OrderFacts DEF PublishInv, Uploading
<1>2. /\ ppc' = "upload" /\ turn' = turn + 1 /\ asset' = asset
      /\ unserved' = unserved \cup {Order[turn]}
  BY DEF Refused, NextTool, NotServed
<1>3. turn' \in Nat /\ turn' > 0
  BY <1>1, <1>2
<1>4. dist' = manifest' /\ packaged' \subseteq Tools /\ unserved' \subseteq Tools
  BY <1>1, <1>2 DEF PublishInv
<1>5. /\ asset' = [t \in Tools |-> asset'[t]]
      /\ manifest' = [t \in Tools |-> manifest'[t]]
  BY <1>2 DEF PublishInv
<1>6. ASSUME NEW i \in 1..Len(Order), i < turn' PROVE Agrees(Order[i])'
  <2>1. CASE i = turn BY <1>2, <2>1 DEF Agrees
  <2>2. CASE i < turn
    <3>1. Agrees(Order[i]) BY <2>2 DEF PublishInv, Uploading
    <3>2. QED BY <1>2, <3>1 DEF Agrees
  <2>3. QED BY <1>1, <1>2, <1>6, <2>1, <2>2
<1>7. QED
  BY <1>2, <1>3, <1>4, <1>5, <1>6 DEF PublishInv, ServedToolsConverge, Uploading

LEMMA SkipKeeps == ASSUME PublishInv, SkipUnpackaged PROVE PublishInv'
<1>1. unserved' = unserved
  BY DEF SkipUnpackaged
<1>2. ppc = "upload" /\ ppc' = "upload" /\ turn' = turn + 1
  BY DEF SkipUnpackaged, NextTool
<1>3. ASSUME NEW i \in 1..Len(Order), i < turn' PROVE Agrees(Order[i])
  <2>1. CASE i = turn BY <2>1 DEF Agrees, SkipUnpackaged
  <2>2. CASE i < turn BY <1>2, <1>3, <2>2 DEF PublishInv, Uploading
  <2>3. QED BY <1>2, <1>3, <2>1, <2>2, OrderFacts DEF PublishInv
<1>4. \A t : Agrees(t)' <=> Agrees(t)
  BY DEF Agrees, SkipUnpackaged
<1>5. UNCHANGED <<dist, manifest, packaged, asset>>
  BY DEF SkipUnpackaged
<1>6. QED
  BY <1>1, <1>2, <1>3, <1>4, <1>5 DEF PublishInv, ServedToolsConverge, Uploading

LEMMA UploadKeeps == ASSUME PublishInv, Upload PROVE PublishInv'
<1>1. CASE Post(Order[turn]) BY <1>1, PostKeeps DEF Upload
<1>2. CASE Refused BY <1>2, RefusedKeeps DEF Upload
<1>3. CASE ~Post(Order[turn]) /\ ~Refused
  BY <1>3 DEF Upload, PublishInv, ServedToolsConverge, Uploading, Agrees
<1>4. QED BY <1>1, <1>2, <1>3

LEMMA DeleteKeeps == ASSUME PublishInv, DeleteExisting PROVE PublishInv'
<1>1. turn \in 1..Len(Order) /\ Order[turn] \in Tools
  BY OrderFacts DEF PublishInv, DeleteExisting, Uploading
<1>2. CASE asset' = [asset EXCEPT ![Order[turn]] = NoZip] /\ UNCHANGED unserved
  <2>1. \A i \in 1..Len(Order) : i < turn => asset'[Order[i]] = asset[Order[i]]
    BY <1>1, <1>2, OrderFacts DEF PublishInv
  <2>2. asset' = [t \in Tools |-> asset'[t]]
    BY <1>1, <1>2 DEF PublishInv
  <2>3. QED
    BY <1>1, <1>2, <2>1, <2>2
    DEF DeleteExisting, PublishInv, ServedToolsConverge, Uploading, Agrees
<1>3. CASE UNCHANGED asset /\ NotServed
  BY <1>1, <1>3 DEF NotServed, DeleteExisting, PublishInv, ServedToolsConverge, Uploading, Agrees
<1>4. QED BY <1>2, <1>3 DEF DeleteExisting

LEMMA PublishedKeeps == ASSUME PublishInv, Published PROVE PublishInv'
<1>1. ASSUME NEW t \in packaged \ unserved PROVE asset[t] = manifest[t]
  <2>1. PICK i \in 1..Len(Order) : t = Order[i] BY OrderFacts DEF PublishInv
  <2>2. i < turn BY OrderFacts DEF Published, PublishInv
  <2>3. Agrees(Order[i]) BY <1>1, <2>2 DEF Published, PublishInv, Uploading
  <2>4. QED BY <2>1, <2>3 DEF Agrees
<1>2. QED
  BY <1>1 DEF Published, PublishInv, ServedToolsConverge, Uploading

LEMMA CheckoutApart ==
  ASSUME Pull \/ Consume \/ Kill \/ \E t \in Tools : EnsureTool(t)
  PROVE  UNCHANGED <<publisher, asset>>
<1>1. CASE Pull BY <1>1 DEF Pull
<1>2. CASE Consume
  <2>1. CASE FetchTool BY <2>1 DEF FetchTool
  <2>2. CASE Verify BY <2>2 DEF Verify
  <2>3. CASE Extract BY <2>3 DEF Extract
  <2>4. CASE ExtractedAll BY <2>4 DEF ExtractedAll
  <2>5. CASE Validate BY <2>5 DEF Validate
  <2>6. CASE Compile BY <2>6 DEF Compile
  <2>7. CASE Look BY <2>7 DEF Look
  <2>8. QED BY <1>2, <2>1, <2>2, <2>3, <2>4, <2>5, <2>6, <2>7 DEF Consume
<1>3. CASE Kill BY <1>3 DEF Kill
<1>4. CASE \E t \in Tools : EnsureTool(t) BY <1>4 DEF EnsureTool
<1>5. QED BY <1>1, <1>2, <1>3, <1>4

LEMMA PublishInvKept == ASSUME PublishInv, [Next]_vars PROVE PublishInv'
<1> USE DEF PublishInv, ServedToolsConverge, Uploading, Agrees
<1>1. CASE \E t \in Tools : BuildHere(t)
  <2>1. UNCHANGED <<dist, manifest, ppc, turn, packaged, unserved, asset>>
    BY <1>1 DEF BuildHere
  <2>2. QED BY <2>1
<1>2. CASE UNCHANGED <<publisher, asset>> BY <1>2 DEF publisher
<1>3. CASE StartPublish BY <1>3 DEF StartPublish
<1>4. CASE PackageTool BY <1>4, PackageToolKeeps
<1>5. CASE PackagingOver BY <1>5 DEF PackagingOver
<1>6. CASE FindRelease BY <1>6 DEF FindRelease
<1>7. CASE SkipUnpackaged BY <1>7, SkipKeeps
<1>8. CASE Upload BY <1>8, UploadKeeps
<1>9. CASE FindExisting
  <2>1. UNCHANGED <<dist, manifest, turn, packaged, asset>>
    BY <1>9 DEF FindExisting
  <2>2. CASE UNCHANGED unserved BY <1>9, <2>1, <2>2 DEF FindExisting
  <2>3. CASE NotServed
    <3>1. Order[turn] \in Tools
      BY <1>9, OrderFacts DEF FindExisting
    <3>2. QED BY <1>9, <2>1, <2>3, <3>1 DEF FindExisting, NotServed
  <2>4. QED BY <1>9, <2>2, <2>3 DEF FindExisting
<1>10. CASE DeleteExisting BY <1>10, DeleteKeeps
<1>11. CASE UploadAgain BY <1>11, PostKeeps, RefusedKeeps DEF UploadAgain
<1>12. CASE Published BY <1>12, PublishedKeeps
<1>13. CASE ConnectionLost BY <1>13 DEF ConnectionLost
<1>14. CASE UNCHANGED vars BY <1>14 DEF vars, publisher
<1>16. QED
  BY <1>1, <1>2, <1>3, <1>4, <1>5, <1>6, <1>7, <1>8, <1>9, <1>10, <1>11, <1>12, <1>13,
     <1>14, CheckoutApart
  DEF Next, Publish

(* publish.sh:131-176, for any tools and whatever earlier runs left: only  *)
(* a tool whose own requests were refused can differ from its row.         *)
THEOREM ServedToolsDoConverge == Spec => []ServedToolsConverge
<1>1. PublishInv => ServedToolsConverge BY DEF PublishInv
<1>2. QED BY <1>1, PublishInvInit, PublishInvKept, PTL DEF Spec

-----------------------------------------------------------------------------
(* Fetching. *)

(* What was verified is what is extracted, and nothing pulls a new row in  *)
(* between: the binaries already extracted are those of the row.           *)
FetchInv ==
  /\ tool \in Tools /\ file \in Nat
  /\ out = [b \in Bins |-> out[b]]
  /\ cpc = "extract" =>
       /\ temp = rows[tool]
       /\ \A i \in 1..Len(BinsOf[tool]) :
            i < file => out[BinsOf[tool][i]] = rows[tool][BinsOf[tool][i]]
  /\ cpc = "validate" =>
       \A b \in Elements(BinsOf[tool]) : out[b] = rows[tool][b]

LEMMA PublisherApart ==
  ASSUME Publish \/ StartPublish \/ ConnectionLost \/ \E t \in Tools : BuildHere(t)
  PROVE  UNCHANGED consumer
<1>1. CASE Publish
  <2>1. CASE PackageTool BY <2>1 DEF PackageTool
  <2>2. CASE PackagingOver BY <2>2 DEF PackagingOver
  <2>3. CASE FindRelease BY <2>3 DEF FindRelease
  <2>4. CASE SkipUnpackaged BY <2>4 DEF SkipUnpackaged
  <2>5. CASE Upload BY <2>5 DEF Upload
  <2>6. CASE FindExisting BY <2>6 DEF FindExisting
  <2>7. CASE DeleteExisting BY <2>7 DEF DeleteExisting
  <2>8. CASE UploadAgain BY <2>8 DEF UploadAgain
  <2>9. CASE Published BY <2>9 DEF Published
  <2>10. QED
    BY <1>1, <2>1, <2>2, <2>3, <2>4, <2>5, <2>6, <2>7, <2>8, <2>9 DEF Publish
<1>2. CASE StartPublish BY <1>2 DEF StartPublish
<1>3. CASE ConnectionLost BY <1>3 DEF ConnectionLost
<1>4. CASE \E t \in Tools : BuildHere(t) BY <1>4 DEF BuildHere
<1>5. QED BY <1>1, <1>2, <1>3, <1>4

LEMMA FetchInvInit == Init => FetchInv
BY OrderFacts DEF Init, FetchInv

LEMMA ExtractKeeps == ASSUME FetchInv, Extract PROVE FetchInv'
<1> DEFINE b == BinsOf[tool][file]
<1>1. CASE out' = [out EXCEPT ![b] = temp[b]] /\ file' = file + 1 /\ UNCHANGED <<cpc, temp>>
  <2>1. out' = [f \in Bins |-> out'[f]]
    BY <1>1 DEF FetchInv
  <2>2. ASSUME NEW i \in 1..Len(BinsOf[tool]), i < file + 1
        PROVE  out'[BinsOf[tool][i]] = rows[tool][BinsOf[tool][i]]
    <3>1. BinsOf[tool][i] \in Bins
      BY BinsFacts DEF FetchInv
    <3>2. CASE BinsOf[tool][i] = b
      BY <1>1, <3>1, <3>2 DEF FetchInv, Extract
    <3>3. CASE BinsOf[tool][i] # b
      <4>1. i < file BY <2>2, <3>3, BinsFacts DEF FetchInv
      <4>2. QED BY <1>1, <3>1, <3>3, <4>1 DEF FetchInv, Extract
    <3>4. QED BY <3>2, <3>3
  <2>3. QED BY <1>1, <2>1, <2>2 DEF FetchInv, Extract
<1>2. CASE \E left \in {Missing, Partial} : out' = [out EXCEPT ![b] = left] /\ FetchFails
  <2>1. PICK left \in {Missing, Partial} : out' = [out EXCEPT ![b] = left] /\ FetchFails
    BY <1>2
  <2>2. out' = [f \in Bins |-> out'[f]]
    BY <2>1 DEF FetchInv
  <2>3. cpc' = "compile" /\ file' = 0
    BY <2>1 DEF FetchFails
  <2>4. QED BY <2>2, <2>3 DEF FetchInv, Extract
<1>3. QED BY <1>1, <1>2 DEF Extract

LEMMA ExtractedAllKeeps == ASSUME FetchInv, ExtractedAll PROVE FetchInv'
<1>1. ASSUME NEW b \in Elements(BinsOf[tool]) PROVE out[b] = rows[tool][b]
  <2>1. PICK i \in 1..Len(BinsOf[tool]) : b = BinsOf[tool][i]
    BY BinsFacts DEF FetchInv
  <2>2. i < file BY BinsFacts DEF FetchInv, ExtractedAll
  <2>3. QED BY <2>1, <2>2 DEF FetchInv, ExtractedAll
<1>2. QED BY <1>1 DEF FetchInv, ExtractedAll

LEMMA FetchInvKept == ASSUME FetchInv, [Next]_vars PROVE FetchInv'
<1> USE DEF FetchInv
<1>1. CASE UNCHANGED consumer BY <1>1 DEF consumer
<1>2. CASE \E t \in Tools : EnsureTool(t)
  <2>1. PICK t \in Tools : EnsureTool(t) BY <1>2
  <2>2. QED BY <2>1 DEF EnsureTool, Says
<1>6. CASE Pull BY <1>6 DEF Pull
<1>7. CASE FetchTool BY <1>7 DEF FetchTool, FetchFails
<1>8. CASE Verify
  <2>1. CASE temp = rows[tool] BY <1>8, <2>1 DEF Verify
  <2>2. CASE temp # rows[tool] BY <1>8, <2>2 DEF Verify, FetchFails
  <2>3. QED BY <2>1, <2>2
<1>9. CASE Extract BY <1>9, ExtractKeeps
<1>10. CASE ExtractedAll BY <1>10, ExtractedAllKeeps
<1>11. CASE Validate
  <2>1. CASE Says("fetched") BY <1>11, <2>1 DEF Validate, Says
  <2>2. CASE ~Says("fetched") BY <1>11, <2>2 DEF Validate, FetchFails
  <2>3. QED BY <2>1, <2>2
<1>12. CASE Compile BY <1>12 DEF Compile, Installed
<1>13. CASE Look BY <1>13 DEF Look, Says
<1>14. CASE Kill BY <1>14 DEF Kill, Cut, Installed
<1>15. CASE UNCHANGED vars BY <1>15, <1>1 DEF vars
<1>16. QED
  BY <1>1, <1>2, <1>6, <1>7, <1>8, <1>9, <1>10, <1>11, <1>12, <1>13, <1>14, <1>15,
     PublisherApart
  DEF Next, Consume

(* The promise of FetchedIsTheRow, for one step. *)
FetchedStep ==
  answer' = "fetched" /\ answer # "fetched" =>
    \A b \in Elements(BinsOf[tool]) : out'[b] = rows[tool][b]

LEMMA FetchedStepHolds == ASSUME FetchInv, Next PROVE FetchedStep
<1> SUFFICES ASSUME answer' = "fetched", answer # "fetched"
             PROVE  \A b \in Elements(BinsOf[tool]) : out'[b] = rows[tool][b]
  BY DEF FetchedStep
<1>1. CASE Validate BY <1>1 DEF Validate, FetchInv
<1>2. CASE \E u \in Tools : EnsureTool(u)
  <2>1. answer' \in {"present", "none"} BY <1>2 DEF EnsureTool, Says
  <2>2. QED BY <2>1
<1>3. CASE Look
  <2>1. answer' \in {"missing", "compiled"} BY <1>3 DEF Look, Says
  <2>2. QED BY <2>1
<1>4. CASE UNCHANGED answer BY <1>4
<1>5. CASE Pull BY <1>4, <1>5 DEF Pull
<1>6. CASE FetchTool BY <1>4, <1>6 DEF FetchTool
<1>7. CASE Verify BY <1>4, <1>7 DEF Verify
<1>8. CASE Extract BY <1>4, <1>8 DEF Extract
<1>9. CASE ExtractedAll BY <1>4, <1>9 DEF ExtractedAll
<1>10. CASE Compile BY <1>4, <1>10 DEF Compile
<1>11. CASE Kill BY <1>4, <1>11 DEF Kill
<1>12. CASE UNCHANGED consumer BY <1>4, <1>12 DEF consumer
<1>13. QED
  BY <1>1, <1>2, <1>3, <1>5, <1>6, <1>7, <1>8, <1>9, <1>10, <1>11, <1>12, PublisherApart
  DEF Next, Consume

(* lib-pack.sh:198-269: for any number of binaries per tool, with a        *)
(* publisher at work and interruptions at any moment, what is reported as  *)
(* fetched is the row of the manifest, binary by binary.                   *)
THEOREM FetchesAreTheRow == Spec => FetchedIsTheRow
<1>1. FetchInv /\ [Next]_vars => [FetchedStep]_vars
  BY FetchedStepHolds
<1>2. Spec => [][FetchedStep]_vars
  BY <1>1, FetchInvInit, FetchInvKept, PTL DEF Spec
<1>3. QED BY <1>2 DEF FetchedIsTheRow, FetchedStep

-----------------------------------------------------------------------------
(* Types. *)

ReleaseTypes ==
  /\ built \in [Bins -> File]
  /\ \A t \in Tools : manifest[t] \in Zips(t) /\ asset[t] \in Zips(t)
  /\ ppc \in {"idle", "package", "release", "upload", "find", "delete", "again",
              "done", "failed"}
  /\ turn \in 0..Len(Order) + 1
  /\ runs \in 0..MaxRuns

(* Between two fetches no download is left, so that a new tool can be      *)
(* asked for; and what is extracted is a row, which has every binary.      *)
CheckoutTypes ==
  /\ out \in [Bins -> File]
  /\ \A t \in Tools : rows[t] \in Zips(t)
  /\ cpc \in {"idle", "fetch", "verify", "extract", "validate", "compile", "look"}
  /\ tool \in Tools /\ file \in 0..Len(BinsOf[tool]) + 1
  /\ temp \in Zips(tool) \cup {Partial}
  /\ cpc \notin {"verify", "extract"} => temp = NoZip
  /\ cpc = "verify" => rows[tool] \in Zip(tool)
  /\ cpc = "extract" => temp \in Zip(tool) /\ file > 0
  /\ answer \in {"none", "present", "fetched", "compiled", "missing"}

LEMMA FilesInstalled ==
  ASSUME NEW dir \in [Bins -> File], NEW t \in Tools, NEW b \in Builds,
         NEW n \in 1..Len(BinsOf[t])
  PROVE  /\ Installed(dir, t, b, n) \in [Bins -> File]
         /\ Cut(Installed(dir, t, b, n), t, n) \in [Bins -> File]
         /\ Cut(dir, t, n) \in [Bins -> File]
<1>1. Installed(dir, t, b, n) \in [Bins -> File]
  BY DEF Installed, File
<1>2. BinsOf[t][n] \in Bins
  BY BinsFacts
<1>3. QED BY <1>1, <1>2 DEF Cut, File

LEMMA ZipsPacked ==
  ASSUME built \in [Bins -> File], NEW t \in Tools,
         ~ \E b \in Elements(BinsOf[t]) : built[b] = Missing
  PROVE  ZipOf(t) \in Zips(t)
BY BinsFacts DEF ZipOf, Zips, Zip, File

LEMMA TypesInit == Init => ReleaseTypes /\ CheckoutTypes
<1> SUFFICES ASSUME Init PROVE ReleaseTypes /\ CheckoutTypes
  OBVIOUS
<1>1. ReleaseTypes
  BY OrderFacts, ToolsAssumption DEF Init, ReleaseTypes, Zips, File
<1>2. CheckoutTypes
  BY OrderFacts, BinsFacts DEF Init, CheckoutTypes, Zips, File
<1>3. QED BY <1>1, <1>2

LEMMA ReleaseKeeps ==
  ASSUME ReleaseTypes, PublishInv, [Next]_vars PROVE ReleaseTypes'
<1> USE DEF ReleaseTypes
<1>1. CASE \E t \in Tools : BuildHere(t)
  <2>1. PICK t \in Tools : BuildHere(t) BY <1>1
  <2>2. built' \in [Bins -> File]
    BY <2>1, FilesInstalled DEF BuildHere
  <2>3. QED BY <2>1, <2>2 DEF BuildHere
<1>2. CASE StartPublish
  BY <1>2, OrderFacts, ToolsAssumption DEF StartPublish
<1>3. CASE PackageTool
  <2>1. Order[turn] \in Tools /\ turn' \in 0..Len(Order) + 1
    BY <1>3, OrderFacts DEF PackageTool, PublishInv
  <2>2. CASE \E b \in Elements(BinsOf[Order[turn]]) : built[b] = Missing
    BY <1>3, <2>1, <2>2 DEF PackageTool
  <2>3. CASE ~ \E b \in Elements(BinsOf[Order[turn]]) : built[b] = Missing
    <3>1. manifest' = [manifest EXCEPT ![Order[turn]] = ZipOf(Order[turn])]
      BY <1>3, <2>3 DEF PackageTool
    <3>2. \A t \in Tools : manifest'[t] \in Zips(t)
      BY <2>1, <2>3, <3>1, ZipsPacked DEF PublishInv
    <3>3. QED BY <1>3, <2>1, <3>2 DEF PackageTool
  <2>4. QED BY <2>2, <2>3
<1>4. CASE PackagingOver \/ FindRelease \/ Published \/ ConnectionLost \/ FindExisting
  BY <1>4, OrderFacts DEF PackagingOver, FindRelease, Published, ConnectionLost, FindExisting
<1>5. CASE SkipUnpackaged
  BY <1>5, OrderFacts DEF SkipUnpackaged, NextTool
<1>6. ASSUME turn \in 1..Len(Order), Post(Order[turn]) \/ Refused,
             UNCHANGED <<built, manifest, runs>>
      PROVE  ReleaseTypes'
  <2>1. CASE Post(Order[turn])
    <3>1. \A t \in Tools : asset'[t] \in Zips(t)
      BY <1>6, <2>1, OrderFacts DEF Post, PublishInv
    <3>2. QED BY <1>6, <2>1, <3>1, OrderFacts DEF Post, NextTool
  <2>2. CASE Refused
    BY <1>6, <2>2, OrderFacts DEF Refused, NextTool
  <2>3. QED BY <1>6, <2>1, <2>2
<1>7. CASE Upload
  <2>1. turn \in 1..Len(Order) /\ UNCHANGED <<built, manifest, runs>>
    BY <1>7 DEF Upload, PublishInv, Uploading
  <2>2. CASE Post(Order[turn]) \/ Refused BY <1>6, <2>1, <2>2
  <2>3. CASE ppc' = "find" /\ UNCHANGED <<turn, unserved, asset>>
    BY <2>1, <2>3
  <2>4. QED BY <1>7, <2>2, <2>3 DEF Upload
<1>8. CASE UploadAgain
  <2>1. turn \in 1..Len(Order) /\ UNCHANGED <<built, manifest, runs>>
    BY <1>8 DEF UploadAgain, PublishInv, Uploading
  <2>2. QED BY <1>6, <1>8, <2>1 DEF UploadAgain
<1>9. CASE DeleteExisting
  <2>1. asset' \in {asset, [asset EXCEPT ![Order[turn]] = NoZip]}
    BY <1>9 DEF DeleteExisting
  <2>2. \A t \in Tools : asset'[t] \in Zips(t)
    BY <2>1 DEF PublishInv, Zips
  <2>3. QED BY <1>9, <2>2 DEF DeleteExisting
<1>10. CASE UNCHANGED <<publisher, asset>>
  BY <1>10 DEF publisher
<1>11. QED
  BY <1>1, <1>2, <1>3, <1>4, <1>5, <1>7, <1>8, <1>9, <1>10, CheckoutApart
  DEF Next, Publish, vars, publisher

LEMMA CheckoutKeeps ==
  ASSUME CheckoutTypes, ReleaseTypes, FetchInv, [Next]_vars PROVE CheckoutTypes'
<1> USE DEF CheckoutTypes
<1>0. /\ Len(BinsOf[tool]) \in Nat
      /\ NoZip \in Zips(tool)
  BY BinsFacts DEF Zips
<1>1. CASE Pull
  BY <1>1 DEF Pull, ReleaseTypes
<1>2. CASE \E t \in Tools : EnsureTool(t)
  <2>1. PICK t \in Tools : EnsureTool(t) BY <1>2
  <2>2. /\ tool' = t /\ file' = 0 /\ cpc' \in {"idle", "fetch"}
        /\ answer' \in {"present", "none"} /\ temp' = NoZip
        /\ UNCHANGED <<out, rows>>
    BY <2>1 DEF EnsureTool, Says
  <2>3. Len(BinsOf[t]) \in Nat BY BinsFacts
  <2>4. QED BY <2>2, <2>3 DEF Zips
<1>3. CASE FetchTool
  <2>1. CASE FetchFails
    BY <1>0, <1>3, <2>1 DEF FetchTool, FetchFails
  <2>2. CASE /\ rows[tool] # NoZip /\ temp' \in {asset[tool], Partial}
             /\ cpc' = "verify" /\ UNCHANGED file
    BY <1>3, <2>2 DEF FetchTool, Zips, ReleaseTypes
  <2>3. QED BY <1>3, <2>1, <2>2 DEF FetchTool
<1>4. CASE Verify
  <2>1. CASE temp = rows[tool]
    BY <1>0, <1>4, <2>1 DEF Verify
  <2>2. CASE temp # rows[tool]
    BY <1>0, <1>4, <2>2 DEF Verify, FetchFails
  <2>3. QED BY <2>1, <2>2
<1>5. CASE Extract
  <2>1. file \in 1..Len(BinsOf[tool])
    BY <1>0, <1>5 DEF Extract
  <2> DEFINE b == BinsOf[tool][file]
  <2>2. CASE out' = [out EXCEPT ![b] = temp[b]] /\ file' = file + 1 /\ UNCHANGED <<cpc, temp>>
    <3>1. out' \in [Bins -> File]
      BY <1>5, <2>1, <2>2, BinsFacts DEF Extract, Zip, File
    <3>2. QED BY <1>0, <1>5, <2>2, <3>1 DEF Extract
  <2>3. CASE \E left \in {Missing, Partial} : out' = [out EXCEPT ![b] = left] /\ FetchFails
    <3>1. out' \in [Bins -> File]
      BY <2>3 DEF File
    <3>2. QED BY <1>0, <1>5, <2>3, <3>1 DEF Extract, FetchFails
  <2>4. QED BY <1>5, <2>2, <2>3 DEF Extract
<1>6. CASE ExtractedAll
  BY <1>0, <1>6 DEF ExtractedAll
<1>7. CASE Validate
  BY <1>0, <1>7 DEF Validate, Says, FetchFails
<1>8. CASE Compile
  <2>1. out' \in [Bins -> File]
    BY <1>8, FilesInstalled DEF Compile
  <2>2. QED BY <1>8, <2>1 DEF Compile
<1>9. CASE Look
  BY <1>0, <1>9 DEF Look, Says
<1>10. CASE Kill
  <2>1. out' \in [Bins -> File]
    <3>1. CASE UNCHANGED out BY <3>1
    <3>2. CASE out' = Cut(out, tool, file)
      BY <3>2 DEF Cut, File
    <3>3. CASE \E b \in Builds, n \in 1..Len(BinsOf[tool]) :
                 out' = Cut(Installed(out, tool, b, n), tool, n)
      BY <3>3, FilesInstalled
    <3>4. QED BY <1>10, <3>1, <3>2, <3>3 DEF Kill
  <2>2. QED BY <1>0, <1>10, <2>1 DEF Kill
<1>11. CASE UNCHANGED consumer
  BY <1>11 DEF consumer
<1>12. QED
  BY <1>1, <1>2, <1>3, <1>4, <1>5, <1>6, <1>7, <1>8, <1>9, <1>10, <1>11, PublisherApart
  DEF Next, Consume, vars

(* For any tools, binaries and builds, both scripts stay where their code  *)
(* can be, and an archive, wherever it lies, has the binaries of its tool  *)
(* and no other (publish.sh:80-180, lib-pack.sh:185-270).                  *)
THEOREM TypeCorrect == Spec => []TypeOK
<1>1. PublishInv /\ ReleaseTypes /\ CheckoutTypes => TypeOK
  BY DEF PublishInv, ReleaseTypes, CheckoutTypes, TypeOK
<1>2. Init => ReleaseTypes /\ CheckoutTypes
  BY TypesInit
<1>3. ReleaseTypes /\ CheckoutTypes /\ PublishInv /\ FetchInv /\ [Next]_vars
        => ReleaseTypes' /\ CheckoutTypes'
  BY ReleaseKeeps, CheckoutKeeps
<1>4. QED
  BY <1>1, <1>2, <1>3, PublishInvInit, PublishInvKept, FetchInvInit, FetchInvKept, PTL DEF Spec

=============================================================================
