-------------------------- MODULE RegistryProofs -------------------------
(***************************************************************************)
(* Registry's safety properties, for any number of commands and sandboxes, *)
(* any --generation values, any overlaps and any failures.                 *)
(***************************************************************************)
EXTENDS Registry, TLAPS

\* Nothing has happened yet that nothing here is locked against.
Calm == disorder = {} /\ NoOverride

\* What is renamed over the registry has reached the disk.
FlushedInv ==
    /\ torn = FALSE /\ safe = TRUE
    /\ \A c \in Commands : pc[c] = "synced" => c \in flushed

\* Commands that run together are for different sandboxes, and one at a time is
\* inside set.
Apart ==
    /\ \A c, o \in Running : c # o => Box(c) # Box(o)
    /\ \A c, o \in Writing : c = o

\* Between choosing a generation and replacing the file.
Chosen == {"minted", "setting"} \cup Window

\* So nobody moves the entry a command chose its generation by, nor the file under
\* one that is inside set; what a command knew of is below the bar once its own
\* generation is in the file; and what a grant delivers stays delivered.
Fine(c) ==
    /\ pc[c] \in Chosen => generation[c] = file[Box(c)] + 1
    /\ pc[c] = "renamed" => generation[c] = file[Box(c)]
    /\ pc[c] \in Window => view[c] = [file EXCEPT ![Box(c)] = generation[c]]
    /\ pc[c] \notin Over => \A g \in known[c] : g <= file[Box(c)]
    /\ pc[c] = "renamed" => \A g \in known[c] : g < file[Box(c)]
    /\ pc[c] \in {"setting"} \cup Window /\ job[c].op = "grant" /\ job[c].proxy =>
          held[Box(c)] = generation[c]

\* Nothing granted is above the bar, nothing retired is at it, and a token below it
\* was cut off by a command that may.
Sound(b) ==
    /\ \A g \in granted[b] : g <= file[b]
    /\ \A g \in retired[b] : g < file[b]
    /\ held[b] # 0 /\ held[b] < file[b] =>
         /\ writer[b] \in Commands
         /\ job[writer[b]].op = "revoke" \/ ~job[writer[b]].proxy

Order ==
    /\ Apart
    /\ \A c \in Commands : Fine(c)
    /\ \A b \in Sandboxes : Sound(b)

IInv == TypeOK /\ FlushedInv /\ (Calm => Order)

--------------------------------------------------------------------------
(* Types *)

LEMMA EndTypes ==
    ASSUME TypeOK, NEW C \in SUBSET Commands, NEW p \in Over, End(C, p)
    PROVE  /\ pc' \in [Commands -> Over \cup Window \cup {"opened", "minted", "setting", "renamed"}]
           /\ generation' \in [Commands -> Nat]
           /\ view' \in [Commands -> [Sandboxes -> Nat]]
           /\ flushed' \subseteq Commands
           /\ known' \in [Commands -> SUBSET Nat]
<1>1. Nothing \in [Sandboxes -> Nat]
  BY DEF Nothing
<1> QED
  BY <1>1 DEF TypeOK, End

LEMMA JobTypes ==
    ASSUME TypeOK, NEW c \in Commands
    PROVE  /\ Box(c) \in Sandboxes
           /\ job[c].op \in {"grant", "revoke"}
           /\ job[c].override \in Nat
<1>1. job[c] \in Jobs
  BY DEF TypeOK
<1>2. CASE job[c] \in [op : {"revoke"}, box : Sandboxes, override : {0}, proxy : {FALSE}]
  <2>1. job[c].box \in Sandboxes /\ job[c].op \in {"revoke"} /\ job[c].override \in {0}
    BY <1>2, Zenon
  <2> QED
    BY <2>1 DEF Box
<1>3. CASE job[c] \in [op : {"grant"}, box : Sandboxes, override : Overrides, proxy : BOOLEAN]
  <2>1. Overrides \subseteq Nat
    BY RegistryAssumption
  <2> QED
    BY <1>3, <2>1 DEF Box
<1>4. \/ job[c] \in [op : {"revoke"}, box : Sandboxes, override : {0}, proxy : {FALSE}]
      \/ job[c] \in [op : {"grant"}, box : Sandboxes, override : Overrides, proxy : BOOLEAN]
  BY <1>1 DEF Jobs
<1> QED
  BY <1>2, <1>3, <1>4

LEMMA ReloadTypes ==
    ASSUME TypeOK, NEW c \in Commands, NEW from, NEW to \in {"opened", "setting", "loaded", "minted"},
           NEW changed \in [Sandboxes -> Nat], Reload(c, from, to, changed)
    PROVE  /\ pc' \in [Commands -> Over \cup Window \cup {"opened", "minted", "setting", "renamed"}]
           /\ view' \in [Commands -> [Sandboxes -> Nat]]
           /\ UNCHANGED <<flushed, job, file, torn, durable, safe, writer, held, granted, retired>>
<1>1. CASE torn
  BY <1>1 DEF TypeOK, Reload, Goto, Over, fileVars
<1>2. CASE ~torn
  BY <1>2 DEF TypeOK, Reload, Goto, Window, fileVars
<1> QED
  BY <1>1, <1>2

LEMMA TypeStep ==
    ASSUME TypeOK, FlushedInv, [Next]_vars
    PROVE  TypeOK'
<1> USE DEF vars, commandVars, fileVars, reports, Over, Window
<1>0. Nothing \in [Sandboxes -> Nat]
  BY DEF Nothing
<1>1. ASSUME NEW c \in Commands, Open(c) PROVE TypeOK'
  <2>1. disorder' \subseteq {"same", "writes", "power"}
    BY <1>1 DEF TypeOK, Open, Started, OverlapOf
  <2>2. Reload(c, "idle", "opened", file)
    BY <1>1 DEF Open
  <2>3. known' \in [Commands -> SUBSET Nat]
    BY <1>1, JobTypes DEF Open, TypeOK
  <2>4. file \in [Sandboxes -> Nat]
    BY DEF TypeOK
  <2> QED
    BY <1>1, <2>1, <2>2, <2>3, <2>4, ReloadTypes DEF TypeOK, Open
<1>2. ASSUME NEW c \in Commands, ChooseBar(c) PROVE TypeOK'
  <2>1. Reload(c, "opened", "setting", file)
    BY <1>2 DEF ChooseBar
  <2>2. generation' \in [Commands -> Nat]
    BY <1>2, JobTypes DEF ChooseBar, TypeOK
  <2>3. file \in [Sandboxes -> Nat]
    BY DEF TypeOK
  <2> QED
    BY <1>2, <2>1, <2>2, <2>3, ReloadTypes DEF TypeOK, ChooseBar
<1>3. ASSUME NEW c \in Commands, MintNext(c) PROVE TypeOK'
  <2>1. Reload(c, "opened", "minted", file)
    BY <1>3 DEF MintNext
  <2>2. generation' \in [Commands -> Nat]
    BY <1>3, JobTypes DEF MintNext, TypeOK
  <2>3. file \in [Sandboxes -> Nat]
    BY DEF TypeOK
  <2> QED
    BY <1>3, <2>1, <2>2, <2>3, ReloadTypes DEF TypeOK, MintNext
<1>4. ASSUME NEW c \in Commands, MintOverride(c) PROVE TypeOK'
  BY <1>4, JobTypes DEF TypeOK, MintOverride, Goto
<1>5. ASSUME NEW c \in Commands, Deliver(c) PROVE TypeOK'
  BY <1>5, JobTypes DEF TypeOK, Deliver, Goto
<1>6. ASSUME NEW c \in Commands, DeliveryFails(c) PROVE TypeOK'
  <2>1. End({c}, "failed")
    BY <1>6 DEF DeliveryFails
  <2>2. held' \in [Sandboxes -> Nat]
    BY <1>6, JobTypes DEF DeliveryFails, TypeOK
  <2> QED
    BY <1>6, <2>1, <2>2, EndTypes DEF TypeOK, DeliveryFails
<1>7. ASSUME NEW c \in Commands, Merge(c) PROVE TypeOK'
  <2>1. disorder' \subseteq {"same", "writes", "power"}
    BY <1>7 DEF TypeOK, Merge, Merged
  <2>2. [file EXCEPT ![Box(c)] = generation[c]] \in [Sandboxes -> Nat]
    BY DEF TypeOK
  <2>3. Reload(c, "setting", "loaded", [file EXCEPT ![Box(c)] = generation[c]])
    BY <1>7 DEF Merge
  <2> QED
    BY <1>7, <2>1, <2>2, <2>3, ReloadTypes DEF TypeOK, Merge
<1>8. ASSUME NEW c \in Commands, WriteTemp(c) PROVE TypeOK'
  BY <1>8 DEF TypeOK, WriteTemp, Goto
<1>9. ASSUME NEW c \in Commands, Sync(c) PROVE TypeOK'
  BY <1>9 DEF TypeOK, Sync, Goto
<1>10. ASSUME NEW c \in Commands, Rename(c) PROVE TypeOK'
  <2>1. writer' \in [Sandboxes -> Commands \cup {"nobody"}]
    BY <1>10 DEF TypeOK, Rename
  <2>2. safe' \in BOOLEAN
    <3>1. c \in flushed
      BY <1>10 DEF Rename, FlushedInv
    <3> QED
      BY <1>10, <3>1, Zenon DEF Rename
  <2>3. torn' \in BOOLEAN
    BY <1>10 DEF Rename
  <2> QED
    BY <1>10, <2>1, <2>2, <2>3 DEF TypeOK, Rename, Goto
<1>11. ASSUME NEW c \in Commands, WriteFails(c) PROVE TypeOK'
  BY <1>11, EndTypes DEF TypeOK, WriteFails
<1>12. ASSUME NEW c \in Commands, ReportRevoke(c) PROVE TypeOK'
  <2>1. retired' \in [Sandboxes -> SUBSET Nat]
    BY <1>12 DEF ReportRevoke, TypeOK
  <2> QED
    BY <1>12, <2>1, EndTypes DEF TypeOK, ReportRevoke
<1>13. ASSUME NEW c \in Commands, ReportGrant(c) PROVE TypeOK'
  <2>1. retired' \in [Sandboxes -> SUBSET Nat] /\ granted' \in [Sandboxes -> SUBSET Nat]
    <3>1. /\ retired \in [Sandboxes -> SUBSET Nat] /\ granted \in [Sandboxes -> SUBSET Nat]
          /\ known[c] \in SUBSET Nat /\ generation[c] \in Nat
      BY DEF TypeOK
    <3>2. /\ retired' = [retired EXCEPT ![Box(c)] = @ \cup (known[c] \ {generation[c]})]
          /\ granted' = [granted EXCEPT ![Box(c)] = @ \cup {generation[c]}]
      BY <1>13 DEF ReportGrant
    <3> QED
      BY <3>1, <3>2
  <2>2. held' \in [Sandboxes -> Nat]
    BY <1>13, JobTypes DEF ReportGrant, TypeOK
  <2> QED
    BY <1>13, <2>1, <2>2, EndTypes DEF TypeOK, ReportGrant
<1>14. ASSUME NEW c \in Commands, Crash(c) PROVE TypeOK'
  BY <1>14, EndTypes DEF TypeOK, Crash
<1>15. ASSUME Settle PROVE TypeOK'
  BY <1>15 DEF TypeOK, Settle
<1>16. ASSUME PowerLoss PROVE TypeOK'
  <2>1. End(Running, "dead") /\ Running \subseteq Commands
    BY <1>16 DEF PowerLoss, Running
  <2> QED
    BY <1>16, <2>1, EndTypes DEF TypeOK, PowerLoss
<1>17. CASE UNCHANGED vars
  BY <1>17 DEF TypeOK
<1> QED
  BY <1>1, <1>2, <1>3, <1>4, <1>5, <1>6, <1>7, <1>8, <1>9, <1>10, <1>11, <1>12,
     <1>13, <1>14, <1>15, <1>16, <1>17 DEF Next, CommandNext

--------------------------------------------------------------------------
(* The file on the disk *)

LEMMA FlushedStep ==
    ASSUME TypeOK, FlushedInv, [Next]_vars
    PROVE  FlushedInv'
<1> USE DEF commandVars, fileVars, reports, FlushedInv
<1>1. ASSUME NEW c \in Commands, Open(c) \/ ChooseBar(c) \/ MintNext(c) \/ Merge(c)
      PROVE  FlushedInv'
  <2>1. CASE Open(c)
    BY <2>1 DEF TypeOK, Open, Reload, Goto
  <2>2. CASE ChooseBar(c)
    BY <2>2 DEF TypeOK, ChooseBar, Reload, Goto
  <2>3. CASE MintNext(c)
    BY <2>3 DEF TypeOK, MintNext, Reload, Goto
  <2>4. CASE Merge(c)
    BY <2>4 DEF TypeOK, Merge, Reload, Goto
  <2> QED
    BY <1>1, <2>1, <2>2, <2>3, <2>4
<1>2. ASSUME NEW c \in Commands, MintOverride(c) \/ Deliver(c) \/ WriteTemp(c) \/ Sync(c)
      PROVE  FlushedInv'
  BY <1>2 DEF TypeOK, MintOverride, Deliver, WriteTemp, Sync, Goto
<1>3. ASSUME NEW c \in Commands,
             DeliveryFails(c) \/ WriteFails(c) \/ Crash(c) \/ ReportRevoke(c) \/ ReportGrant(c)
      PROVE  FlushedInv'
  <2>1. PICK p \in {"failed", "dead", "done"} : End({c}, p)
    BY <1>3 DEF DeliveryFails, WriteFails, Crash, ReportRevoke, ReportGrant
  <2>2. torn' = torn /\ safe' = safe
    BY <1>3 DEF DeliveryFails, WriteFails, Crash, ReportRevoke, ReportGrant
  <2>3. \A o \in Commands : pc'[o] = "synced" => o \in flushed'
    BY <2>1 DEF End
  <2> QED
    BY <2>2, <2>3
<1>4. ASSUME NEW c \in Commands, Rename(c) PROVE FlushedInv'
  <2>1. c \in flushed
    BY <1>4 DEF Rename
  <2>2. safe' = TRUE
    BY <1>4, <2>1, Zenon DEF Rename
  <2> QED
    BY <1>4, <2>2 DEF TypeOK, Rename, Goto
<1>5. ASSUME Settle PROVE FlushedInv'
  BY <1>5 DEF Settle
<1>6. ASSUME PowerLoss PROVE FlushedInv'
  <2>1. torn' = FALSE /\ safe' = TRUE
    BY <1>6 DEF PowerLoss
  <2>2. ASSUME NEW c \in Commands, pc'[c] = "synced" PROVE c \in flushed'
    BY <1>6, <2>2 DEF PowerLoss, End, Running, Over
  <2> QED
    BY <2>1, <2>2
<1>7. CASE UNCHANGED vars
  BY <1>7 DEF vars
<1> QED
  BY <1>1, <1>2, <1>3, <1>4, <1>5, <1>6, <1>7 DEF Next, CommandNext

--------------------------------------------------------------------------
(* What a command leaves alone *)

\* A step of d concerns the other commands and sandboxes through the file alone.
Local(d) ==
    /\ job' = job
    /\ \A c \in Commands \ {d} :
          /\ pc'[c] = pc[c] /\ generation'[c] = generation[c]
          /\ view'[c] = view[c] /\ known'[c] = known[c]
    /\ \A b \in Sandboxes \ {Box(d)} :
          held'[b] = held[b] /\ granted'[b] = granted[b] /\ retired'[b] = retired[b]

LEMMA EachIsLocal ==
    ASSUME TypeOK, NEW d \in Commands, CommandNext(d)
    PROVE  Local(d)
<1> USE DEF commandVars, fileVars, reports
<1>1. CASE Open(d) \/ ChooseBar(d) \/ MintNext(d) \/ Merge(d)
  BY <1>1 DEF TypeOK, Local, Open, ChooseBar, MintNext, Merge, Reload, Goto
<1>2. CASE MintOverride(d) \/ Deliver(d) \/ WriteTemp(d) \/ Sync(d) \/ Rename(d)
  BY <1>2 DEF TypeOK, Local, MintOverride, Deliver, WriteTemp, Sync, Rename, Goto
<1>3. CASE DeliveryFails(d) \/ WriteFails(d) \/ Crash(d)
  BY <1>3 DEF TypeOK, Local, DeliveryFails, WriteFails, Crash, End
<1>4. CASE ReportRevoke(d) \/ ReportGrant(d)
  BY <1>4 DEF TypeOK, Local, ReportRevoke, ReportGrant, End
<1> QED
  BY <1>1, <1>2, <1>3, <1>4 DEF CommandNext

LEMMA JobsStand ==
    ASSUME Next
    PROVE  job' = job
<1> USE DEF commandVars, fileVars, reports
<1>1. ASSUME NEW d \in Commands, Open(d) \/ ChooseBar(d) \/ MintNext(d) \/ Merge(d)
      PROVE  job' = job
  BY <1>1 DEF Open, ChooseBar, MintNext, Merge, Reload
<1>2. ASSUME NEW d \in Commands,
             MintOverride(d) \/ Deliver(d) \/ WriteTemp(d) \/ Sync(d) \/ Rename(d)
      PROVE  job' = job
  BY <1>2 DEF MintOverride, Deliver, WriteTemp, Sync, Rename
<1>3. ASSUME NEW d \in Commands,
             DeliveryFails(d) \/ WriteFails(d) \/ Crash(d) \/ ReportRevoke(d) \/ ReportGrant(d)
      PROVE  job' = job
  BY <1>3 DEF DeliveryFails, WriteFails, Crash, ReportRevoke, ReportGrant
<1>4. ASSUME Settle \/ PowerLoss PROVE job' = job
  BY <1>4 DEF Settle, PowerLoss
<1> QED
  BY <1>1, <1>2, <1>3, <1>4 DEF Next, CommandNext

LEMMA CalmBefore ==
    ASSUME TypeOK, Next, Calm'
    PROVE  Calm /\ job' = job /\ ~PowerLoss
<1> USE DEF commandVars, fileVars, reports
<1>1. ASSUME NEW d \in Commands, CommandNext(d) PROVE job' = job /\ disorder \subseteq disorder'
  <2>1. CASE Open(d) \/ ChooseBar(d) \/ MintNext(d) \/ Merge(d)
    BY <2>1 DEF Open, ChooseBar, MintNext, Merge, Merged, Started, Reload
  <2>2. CASE MintOverride(d) \/ Deliver(d) \/ WriteTemp(d) \/ Sync(d) \/ Rename(d)
    BY <2>2 DEF MintOverride, Deliver, WriteTemp, Sync, Rename
  <2>3. CASE DeliveryFails(d) \/ WriteFails(d) \/ Crash(d) \/ ReportRevoke(d) \/ ReportGrant(d)
    BY <2>3 DEF DeliveryFails, WriteFails, Crash, ReportRevoke, ReportGrant
  <2> QED
    BY <1>1, <2>1, <2>2, <2>3 DEF CommandNext
<1>2. ASSUME Settle PROVE job' = job /\ disorder' = disorder
  BY <1>2 DEF Settle
<1>3. ~PowerLoss
  BY DEF PowerLoss, Calm
<1>4. job' = job /\ disorder \subseteq disorder'
  BY <1>1, <1>2, <1>3 DEF Next
<1> QED
  BY <1>3, <1>4 DEF Calm, NoOverride

--------------------------------------------------------------------------
(* Order *)

\* What a step of d does to the file.
FileBy(d) ==
    \/ file' = file /\ writer' = writer
    \/ /\ pc[d] \in Window
       /\ file' = [file EXCEPT ![Box(d)] = generation[d]]
       /\ \A b \in Sandboxes \ {Box(d)} : writer'[b] = writer[b]

LEMMA FileStep ==
    ASSUME TypeOK, NEW d \in Commands, Fine(d), CommandNext(d)
    PROVE  FileBy(d)
<1> USE DEF commandVars, fileVars, reports
<1>1. CASE Rename(d)
  <2>1. pc[d] \in Window /\ file' = [file EXCEPT ![Box(d)] = generation[d]]
    BY <1>1 DEF Rename, Fine, Window
  <2>2. \A b \in Sandboxes \ {Box(d)} : view[d][b] = file[b]
    BY <2>1 DEF Fine, TypeOK
  <2>3. \A b \in Sandboxes \ {Box(d)} : writer'[b] = writer[b]
    BY <1>1, <2>2 DEF Rename
  <2> QED
    BY <2>1, <2>3 DEF FileBy
<1>2. CASE Open(d) \/ ChooseBar(d) \/ MintNext(d) \/ Merge(d)
  BY <1>2 DEF FileBy, Open, ChooseBar, MintNext, Merge, Reload
<1>3. CASE MintOverride(d) \/ Deliver(d) \/ WriteTemp(d) \/ Sync(d)
  BY <1>3 DEF FileBy, MintOverride, Deliver, WriteTemp, Sync
<1>4. CASE DeliveryFails(d) \/ WriteFails(d) \/ Crash(d) \/ ReportRevoke(d) \/ ReportGrant(d)
  BY <1>4 DEF FileBy, DeliveryFails, WriteFails, Crash, ReportRevoke, ReportGrant
<1> QED
  BY <1>1, <1>2, <1>3, <1>4 DEF CommandNext

LEMMA OthersStayFine ==
    ASSUME TypeOK, NEW d \in Commands, NEW c \in Commands \ {d}, Fine(c), Apart, Local(d), FileBy(d),
           pc[d] \in Over => held' = held
    PROVE  Fine(c)'
<1> USE DEF Window, Over, Chosen
<1>1. Box(c)' = Box(c) /\ Box(c) \in Sandboxes /\ Box(d) \in Sandboxes /\ job'[c] = job[c]
  BY JobTypes DEF Local, Box
<1>2. pc[c] \notin Over /\ pc[d] \notin Over => Box(c) # Box(d)
  BY DEF Apart, Running
<1>3. pc[c] \notin Over => file'[Box(c)] = file[Box(c)] /\ held'[Box(c)] = held[Box(c)]
  BY <1>1, <1>2 DEF FileBy, Local, TypeOK
<1>4. pc[c] \in Window => file' = file
  BY DEF FileBy, Apart, Writing
<1>5. pc'[c] = pc[c] /\ generation'[c] = generation[c] /\ view'[c] = view[c] /\ known'[c] = known[c]
  BY DEF Local
<1> QED
  BY <1>1, <1>3, <1>4, <1>5 DEF Fine

LEMMA OthersStaySound ==
    ASSUME TypeOK, NEW d \in Commands, NEW b \in Sandboxes \ {Box(d)}, Sound(b), Local(d), FileBy(d)
    PROVE  Sound(b)'
<1>1. file'[b] = file[b] /\ writer'[b] = writer[b]
  BY DEF FileBy, TypeOK
<1>2. held'[b] = held[b] /\ granted'[b] = granted[b] /\ retired'[b] = retired[b] /\ job' = job
  BY DEF Local
<1> QED
  BY <1>1, <1>2 DEF Sound

LEMMA StaysApart ==
    ASSUME TypeOK, FlushedInv, Apart, NEW d \in Commands, CommandNext(d), Local(d), Calm'
    PROVE  Apart'
<1> USE DEF Window, Over, commandVars, fileVars, reports
<1>1. \A c \in Commands : Box(c)' = Box(c)
  BY DEF Local, Box
<1>2. CASE Open(d)
  <2>1. pc' = [pc EXCEPT ![d] = "opened"] /\ pc[d] = "idle"
    BY <1>2 DEF Open, Reload, Goto, FlushedInv
  <2>2. \A o \in Running : Box(o) # Box(d)
    BY <1>2 DEF Open, Started, Calm, OverlapOf
  <2> QED
    BY <1>1, <2>1, <2>2 DEF Apart, Running, Writing, TypeOK
<1>3. CASE Merge(d)
  <2>1. pc' = [pc EXCEPT ![d] = "loaded"] /\ pc[d] = "setting"
    BY <1>3 DEF Merge, Reload, Goto, FlushedInv
  <2>2. Writing = {}
    BY <1>3 DEF Merge, Merged, Calm
  <2> QED
    BY <1>1, <2>1, <2>2 DEF Apart, Running, Writing, TypeOK
<1>4. ASSUME pc[d] \notin Over, pc[d] \in Window \/ pc'[d] \notin Window PROVE Apart'
  BY <1>1, <1>4 DEF Local, Apart, Running, Writing
<1>5. CASE ChooseBar(d) \/ MintNext(d)
  BY <1>4, <1>5 DEF ChooseBar, MintNext, Reload, Goto, TypeOK
<1>6. CASE MintOverride(d) \/ Deliver(d) \/ WriteTemp(d) \/ Sync(d) \/ Rename(d)
  BY <1>4, <1>6 DEF MintOverride, Deliver, WriteTemp, Sync, Rename, Goto, TypeOK
<1>7. CASE DeliveryFails(d) \/ WriteFails(d) \/ Crash(d) \/ ReportRevoke(d) \/ ReportGrant(d)
  BY <1>4, <1>7 DEF DeliveryFails, WriteFails, Crash, ReportRevoke, ReportGrant, End
<1> QED
  BY <1>2, <1>3, <1>5, <1>6, <1>7 DEF CommandNext

LEMMA StaysFine ==
    ASSUME TypeOK, FlushedInv, Order, NoOverride, NEW d \in Commands, CommandNext(d), Local(d)
    PROVE  Fine(d)'
<1> USE DEF Window, Over, Chosen, commandVars, fileVars, reports
<1> DEFINE b == Box(d)
<1>0. b \in Sandboxes /\ Box(d)' = b /\ job' = job /\ Fine(d) /\ Sound(b)
  BY JobTypes DEF Local, Box, Order
<1>1. CASE Open(d)
  <2>1. pc'[d] = "opened" /\ file' = file /\ known'[d] = granted[b]
    BY <1>1 DEF Open, Reload, Goto, FlushedInv, TypeOK
  <2> QED
    BY <1>0, <2>1 DEF Fine, Sound
<1>2. CASE ChooseBar(d)
  <2>1. /\ pc[d] = "opened" /\ pc'[d] = "setting" /\ file' = file /\ known' = known
        /\ generation'[d] = file[b] + 1 /\ job[d].op = "revoke"
    BY <1>2 DEF ChooseBar, Reload, Goto, FlushedInv, TypeOK
  <2> QED
    BY <1>0, <2>1 DEF Fine
<1>3. CASE MintNext(d)
  <2>1. /\ pc[d] = "opened" /\ pc'[d] = "minted" /\ file' = file /\ known' = known
        /\ generation'[d] = file[b] + 1
    BY <1>3 DEF MintNext, Reload, Goto, FlushedInv, TypeOK
  <2> QED
    BY <1>0, <2>1 DEF Fine
<1>4. CASE MintOverride(d)
  BY <1>4 DEF MintOverride, NoOverride
<1>5. CASE Deliver(d)
  <2>1. /\ pc[d] = "minted" /\ pc'[d] = "setting" /\ file' = file /\ known' = known
        /\ generation' = generation
        /\ job[d].proxy => held'[b] = generation[d]
    BY <1>0, <1>5 DEF Deliver, Goto, TypeOK
  <2> QED
    BY <1>0, <2>1 DEF Fine
<1>6. CASE Merge(d)
  <2>1. /\ pc[d] = "setting" /\ pc'[d] = "loaded" /\ file' = file /\ known' = known /\ held' = held
        /\ generation' = generation /\ view'[d] = [file EXCEPT ![b] = generation[d]]
    BY <1>6 DEF Merge, Reload, Goto, FlushedInv, TypeOK
  <2> QED
    BY <1>0, <2>1 DEF Fine
<1>7. CASE WriteTemp(d) \/ Sync(d)
  <2>1. /\ pc[d] \in Window /\ pc'[d] \in Window /\ file' = file /\ known' = known /\ held' = held
        /\ generation' = generation /\ view' = view
    BY <1>7 DEF WriteTemp, Sync, Goto, TypeOK
  <2> QED
    BY <1>0, <2>1 DEF Fine
<1>8. CASE Rename(d)
  <2>1. /\ pc[d] = "synced" /\ pc'[d] = "renamed" /\ file' = view[d] /\ known' = known
        /\ generation' = generation
    BY <1>8 DEF Rename, Goto, TypeOK
  <2>2. file'[b] = generation[d] /\ generation[d] = file[b] + 1
    BY <1>0, <2>1 DEF Fine, TypeOK
  <2>3. file[b] \in Nat /\ known[d] \subseteq Nat
    BY <1>0 DEF TypeOK
  <2> QED
    BY <1>0, <2>1, <2>2, <2>3 DEF Fine
<1>9. CASE DeliveryFails(d) \/ WriteFails(d) \/ Crash(d) \/ ReportRevoke(d) \/ ReportGrant(d)
  <2>1. pc'[d] \in Over
    BY <1>9 DEF DeliveryFails, WriteFails, Crash, ReportRevoke, ReportGrant, End
  <2> QED
    BY <2>1 DEF Fine
<1> QED
  BY <1>1, <1>2, <1>3, <1>4, <1>5, <1>6, <1>7, <1>8, <1>9 DEF CommandNext

LEMMA StaysSound ==
    ASSUME TypeOK, Order, NoOverride, NEW d \in Commands, CommandNext(d), Local(d)
    PROVE  Sound(Box(d))'
<1> USE DEF Window, Over, Chosen, commandVars, fileVars, reports
<1> DEFINE b == Box(d)
<1>0. b \in Sandboxes /\ Box(d)' = b /\ job' = job /\ Fine(d) /\ Sound(b)
  BY JobTypes DEF Local, Box, Order
<1>1. generation[d] \in Nat /\ file[b] \in Nat /\ held[b] \in Nat /\ granted[b] \subseteq Nat
      /\ retired[b] \subseteq Nat /\ known[d] \subseteq Nat
  BY <1>0 DEF TypeOK
<1>2. ASSUME UNCHANGED <<file, writer, held, granted, retired>> PROVE Sound(b)'
  BY <1>0, <1>2 DEF Sound
<1>3. CASE Open(d) \/ ChooseBar(d) \/ MintNext(d) \/ Merge(d)
  BY <1>2, <1>3 DEF Open, ChooseBar, MintNext, Merge, Reload
<1>4. CASE MintOverride(d) \/ WriteTemp(d) \/ Sync(d) \/ WriteFails(d) \/ Crash(d)
  BY <1>2, <1>4 DEF MintOverride, WriteTemp, Sync, WriteFails, Crash
<1>5. CASE Deliver(d) \/ DeliveryFails(d)
  <2>1. UNCHANGED <<file, writer, granted, retired>> /\ generation[d] = file[b] + 1
    BY <1>0, <1>5 DEF Deliver, DeliveryFails, Fine
  <2>2. held'[b] \in {held[b], generation[d]}
    BY <1>0, <1>5 DEF Deliver, DeliveryFails, TypeOK
  <2>3. CASE held'[b] = held[b]
    BY <1>0, <2>1, <2>3 DEF Sound
  <2>4. CASE held'[b] = generation[d]
    BY <1>0, <1>1, <2>1, <2>4 DEF Sound
  <2> QED
    BY <2>2, <2>3, <2>4
<1>6. CASE Rename(d)
  <2>1. pc[d] = "synced" /\ file' = view[d] /\ held' = held /\ granted' = granted /\ retired' = retired
    BY <1>6 DEF Rename
  <2>2. file'[b] = file[b] + 1 /\ generation[d] = file[b] + 1
    BY <1>0, <2>1 DEF Fine, TypeOK
  <2>3. writer'[b] = d
    BY <1>0, <1>1, <1>6, <2>1, <2>2 DEF Rename, TypeOK
  <2>4. job[d].op = "grant" /\ job[d].proxy => held[b] = generation[d]
    BY <1>0, <2>1 DEF Fine
  <2>5. job[d].op \in {"grant", "revoke"}
    BY JobTypes
  <2> QED
    BY <1>0, <1>1, <2>1, <2>2, <2>3, <2>4, <2>5 DEF Sound
<1>7. CASE ReportRevoke(d)
  <2>1. /\ UNCHANGED <<file, writer, held, granted>> /\ retired'[b] = retired[b] \cup known[d]
        /\ pc[d] = "renamed"
    BY <1>0, <1>7 DEF ReportRevoke, TypeOK
  <2> QED
    BY <1>0, <2>1 DEF Sound, Fine
<1>8. CASE ReportGrant(d)
  <2>1. /\ UNCHANGED <<file, writer>> /\ retired'[b] = retired[b] \cup (known[d] \ {generation[d]})
        /\ granted'[b] = granted[b] \cup {generation[d]} /\ pc[d] = "renamed"
        /\ held'[b] \in {held[b], generation[d]}
    BY <1>0, <1>8 DEF ReportGrant, TypeOK
  <2>2. generation[d] = file[b]
    BY <1>0, <2>1 DEF Fine
  <2> QED
    BY <1>0, <1>1, <2>1, <2>2 DEF Sound, Fine
<1> QED
  BY <1>3, <1>4, <1>5, <1>6, <1>7, <1>8 DEF CommandNext

LEMMA OrderStep ==
    ASSUME IInv, [Next]_vars, Calm'
    PROVE  Order'
<1> USE DEF vars, commandVars, fileVars, reports
<1>1. CASE UNCHANGED vars
  BY <1>1 DEF IInv, Calm, NoOverride, Order, Apart, Running, Writing, Fine, Sound, Box
<1>2. CASE Next
  <2>1. Calm /\ job' = job /\ ~PowerLoss /\ Order
    BY <1>2, CalmBefore DEF IInv
  <2>2. CASE Settle
    BY <2>1, <2>2 DEF Settle, Order, Apart, Running, Writing, Fine, Sound, Box
  <2>3. ASSUME NEW d \in Commands, CommandNext(d) PROVE Order'
    <3>1. Local(d) /\ FileBy(d)
      BY <2>1, <2>3, EachIsLocal, FileStep DEF IInv, Order
    <3>2. pc[d] \in Over => held' = held
      <4>1. CASE Open(d)
        BY <4>1 DEF Open, Reload
      <4>2. CASE ChooseBar(d) \/ MintNext(d) \/ Merge(d)
        BY <4>2 DEF ChooseBar, MintNext, Merge, Reload, Over
      <4>3. CASE ~(Open(d) \/ ChooseBar(d) \/ MintNext(d) \/ Merge(d))
        BY <2>3, <4>3 DEF CommandNext, MintOverride, Deliver, DeliveryFails, WriteTemp, Sync, Rename,
              WriteFails, ReportRevoke, ReportGrant, Crash, Over, Window
      <4> QED
        BY <4>1, <4>2, <4>3
    <3>3. Apart'
      BY <2>1, <2>3, <3>1, StaysApart DEF IInv, Order
    <3>4. Fine(d)' /\ Sound(Box(d))'
      BY <2>1, <2>3, <3>1, StaysFine, StaysSound DEF IInv, Calm
    <3>5. \A c \in Commands \ {d} : Fine(c)'
      BY <2>1, <3>1, <3>2, OthersStayFine DEF IInv, Order
    <3>6. \A b \in Sandboxes \ {Box(d)} : Sound(b)'
      BY <2>1, <3>1, OthersStaySound DEF IInv, Order
    <3>7. Box(d)' = Box(d)
      BY <2>1 DEF Box
    <3> QED
      BY <3>3, <3>4, <3>5, <3>6, <3>7 DEF Order
  <2> QED
    BY <1>2, <2>1, <2>2, <2>3 DEF Next
<1> QED
  BY <1>1, <1>2

--------------------------------------------------------------------------
(* The theorems *)

LEMMA InitIInv == Init => IInv
<1> SUFFICES ASSUME Init PROVE IInv
  OBVIOUS
<1> USE DEF Init, Nothing, Over, Window
<1>1. TypeOK
  BY DEF TypeOK
<1>2. FlushedInv
  BY DEF FlushedInv
<1>3. \A c \in Commands : Fine(c)
  BY DEF Fine, Chosen
<1>4. \A b \in Sandboxes : Sound(b)
  <2> TAKE b \in Sandboxes
  <2>1. held[b] = 0 /\ granted[b] = {} /\ retired[b] = {}
    OBVIOUS
  <2> QED
    BY <2>1 DEF Sound
<1>5. Apart
  BY DEF Apart, Running, Writing
<1> QED
  BY <1>1, <1>2, <1>3, <1>4, <1>5 DEF IInv, Order

LEMMA IInvStep == IInv /\ [Next]_vars => IInv'
<1> SUFFICES ASSUME IInv, [Next]_vars PROVE IInv'
  OBVIOUS
<1>1. TypeOK' /\ FlushedInv'
  BY TypeStep, FlushedStep DEF IInv
<1>2. Calm' => Order'
  BY OrderStep
<1> QED
  BY <1>1, <1>2 DEF IInv

LEMMA Invariance == Spec => []IInv
  BY InitIInv, IInvStep, PTL DEF Spec

\* Whatever the commands do, and wherever they are stopped, the model's state keeps
\* its shape: generations are natural numbers and a command is at a known step.
THEOREM RegistryTypeCorrect == Spec => []TypeOK
<1>1. IInv => TypeOK
  BY DEF IInv
<1> QED
  BY <1>1, Invariance, PTL

\* However many commands write the registry at once, and wherever a command or the
\* host is stopped, the file is one writer's complete content: write flushes the
\* temporary file before it renames it.
THEOREM RegistryNeverTorn == Spec => []NeverTorn
<1>1. IInv => NeverTorn
  BY DEF IInv, FlushedInv, NeverTorn
<1> QED
  BY <1>1, Invariance, PTL

\* As long as commands for one sandbox come one after the other, one command at a
\* time is inside set, the host stays up and nobody gives --generation, a token that
\* grant or revoke reported retired never authenticates again, with any number of
\* commands, any of which may fail or be killed at any step.
THEOREM RetiredTokensStayRetired == Spec => []RetirementHolds
<1>1. IInv => RetirementHolds
  BY DEF IInv, RetirementHolds, RetiredStayRetired, Calm, Order, Sound
<1> QED
  BY <1>1, Invariance, PTL

\* Under the same conditions a grant that fails on the way, at any step, never cuts
\* off the token its sandbox is using.
THEOREM FailedGrantsAreHarmless == Spec => []FailedGrantsCutNobodyOff
<1>1. IInv => FailedGrantsCutNobodyOff
  BY DEF IInv, FailedGrantsCutNobodyOff, Calm, Order, Sound
<1> QED
  BY <1>1, Invariance, PTL

\* Under the same conditions every change of the file raises one sandbox's bar by
\* one and leaves every other sandbox's alone: the merge in set loses no entry.
THEOREM BarsOnlyRise == Spec => BarsRiseByOne
<1>1. ASSUME IInv, IInv', [Next]_vars
      PROVE  [disorder' = {} /\ NoOverride =>
                \E b \in Sandboxes : file' = [file EXCEPT ![b] = @ + 1]]_file
  <2> SUFFICES ASSUME file' # file, disorder' = {}, NoOverride
               PROVE  \E b \in Sandboxes : file' = [file EXCEPT ![b] = @ + 1]
    OBVIOUS
  <2>1. Next
    BY <1>1 DEF vars, fileVars
  <2>2. job' = job
    BY <2>1, JobsStand
  <2>3. Calm'
    BY <2>2 DEF Calm, NoOverride
  <2>4. Calm /\ ~PowerLoss /\ Order
    BY <1>1, <2>1, <2>3, CalmBefore DEF IInv
  <2>5. ~Settle
    BY DEF Settle
  <2>6. PICK d \in Commands : CommandNext(d)
    BY <2>1, <2>4, <2>5 DEF Next
  <2>7. Fine(d) /\ FileBy(d) /\ Box(d) \in Sandboxes
    BY <1>1, <2>4, <2>6, FileStep, JobTypes DEF IInv, Order
  <2>8. file' = [file EXCEPT ![Box(d)] = file[Box(d)] + 1]
    BY <2>7 DEF FileBy, Fine, Chosen
  <2> QED
    BY <2>7, <2>8
<1> QED
  BY <1>1, Invariance, PTL DEF Spec, BarsRiseByOne
==========================================================================
