------------------------- MODULE ModeManagerProofs --------------------------
(***************************************************************************)
(* What ModeManager keeps for every number of processes, commands and      *)
(* restarts: its types, that no spawned wrapper is lost before it is told  *)
(* to end, and that a SET_MODE that has to wait is refused.                *)
(***************************************************************************)
EXTENDS ModeManager, SequenceTheorems, TLAPS

\* Only wrappers are children of the monitor.
ChildrenWrap == \A p \in Pid : table[p].child => table[p].role = "wrapper"

\* A REGISTER_MODE in progress has dropped the entry of its mode.
RegisterDropped ==
  handler # Idle /\ handler.op = "register" => tracked[handler.mode] = 0

\* The cache has nothing for a command that waits, and it cannot get it.
WaitsForNothing ==
  handler # Idle /\ handler.op = "set_mode" /\ handler.looks > 0 =>
    ids[handler.mode] = Unknown

States == {"alive", "told", "zombie", "gone"}

\* What any step but a fork does to the processes: they stay in the list with
\* their mode, nothing becomes a child of the monitor, and no child of it that
\* was told to end is as before.
Kept ==
  /\ table' \in Seq(Process) /\ Len(table') \in Nat /\ Len(table) <= Len(table')
  /\ Pid' = 1..Len(table')
  /\ \A p \in Pid :
       /\ table'[p].mode = table[p].mode
       /\ table'[p].child =>
            /\ table[p].child /\ table'[p].role = table[p].role
            /\ table'[p].state = "alive" => table[p].state = "alive"
  /\ \A p \in Pid' \ Pid : ~table'[p].child

\* The list of processes as a function.
LEMMA TableFacts ==
  ASSUME TypeOK
  PROVE  /\ Len(table) \in Nat /\ Pid = 1..Len(table)
         /\ \A p \in Pid : table[p] \in Process
BY LenProperties, ElementOfSeq DEF TypeOK, Pid

\* A list of the same length with a row for each process is a list of processes.
LEMMA SameLength ==
  ASSUME TypeOK, NEW f, f = [p \in Pid |-> f[p]], \A p \in Pid : f[p] \in Process
  PROVE  f \in Seq(Process) /\ Len(f) = Len(table) /\ DOMAIN f = Pid
<1>1. Len(table) \in Nat /\ Pid = 1..Len(table)
  BY TableFacts
<1>2. f \in [1..Len(table) -> Process]
  BY <1>1
<1>3. f \in Seq(Process)
  BY <1>1, <1>2
<1> QED BY <1>1, <1>2, <1>3, LenProperties

\* A row that keeps its mode, is no new child and is not revived.
LEMMA RowChanged ==
  ASSUME TypeOK, NEW q \in Pid, NEW r \in Process,
         table' = [table EXCEPT ![q] = r],
         r.mode = table[q].mode, r.role = table[q].role, r.child = table[q].child,
         r.child /\ r.state = "alive" => table[q].state = "alive"
  PROVE  Kept
<1>1. Len(table) \in Nat /\ Pid = 1..Len(table) /\ \A p \in Pid : table[p] \in Process
  BY TableFacts
<1>2. table \in Seq(Process)
  BY DEF TypeOK
<1>3. /\ table' \in Seq(Process) /\ Len(table') = Len(table)
      /\ \A p \in Pid : table'[p] = IF p = q THEN r ELSE table[p]
  BY <1>1, <1>2, ExceptSeq
<1>4. Pid' = 1..Len(table')
  BY <1>3, LenProperties DEF Pid
<1> QED BY <1>1, <1>3, <1>4 DEF Kept

\* A process is added.
LEMMA RowAdded ==
  ASSUME TypeOK, NEW r \in Process, table' = Append(table, r)
  PROVE  /\ table' \in Seq(Process) /\ Len(table') = Len(table) + 1
         /\ Pid' = 1..(Len(table) + 1)
         /\ \A p \in Pid : table'[p] = table[p]
         /\ table'[Len(table) + 1] = r
<1>1. Len(table) \in Nat /\ Pid = 1..Len(table)
  BY TableFacts
<1>2. table \in Seq(Process)
  BY DEF TypeOK
<1>3. /\ table' \in Seq(Process) /\ Len(table') = Len(table) + 1
      /\ \A p \in 1..Len(table) : table'[p] = table[p]
      /\ table'[Len(table) + 1] = r
  BY <1>2, AppendProperties
<1>4. Pid' = 1..Len(table')
  BY <1>3, LenProperties DEF Pid
<1> QED BY <1>1, <1>3, <1>4

\* A node is started.
LEMMA NodeStarted ==
  ASSUME TypeOK, NEW m \in Mode, NEW w \in Nat, Start(m, "node", w)
  PROVE  Kept
<1> DEFINE r == [mode |-> m, role |-> "node", parent |-> w, child |-> FALSE,
                 state |-> "alive", slot |-> Unknown]
<1>1. r \in Process
  BY DEF Process
<1>2. table' = Append(table, r)
  BY DEF Start
<1>3. r.child = FALSE
  OBVIOUS
<1> HIDE DEF r
<1>4. Len(table) \in Nat /\ Pid = 1..Len(table) /\ \A p \in Pid : table[p] \in Process
  BY TableFacts
<1>5. /\ table' \in Seq(Process) /\ Len(table') = Len(table) + 1
      /\ Pid' = 1..(Len(table) + 1)
      /\ \A p \in Pid : table'[p] = table[p]
      /\ table'[Len(table) + 1] = r
  BY <1>1, <1>2, RowAdded
<1> QED BY <1>3, <1>4, <1>5 DEF Kept

\* No process changes.
LEMMA TableUnchanged ==
  ASSUME TypeOK, UNCHANGED table
  PROVE  Kept
BY TableFacts DEF Kept, TypeOK, Pid

-----------------------------------------------------------------------------
\* The processes' own steps.

\* The nav_state of a process may change.
LEMMA SlotRow ==
  ASSUME NEW row \in Process, NEW s \in Slot \cup {Unknown}
  PROVE  /\ [row EXCEPT !.slot = s] \in Process
         /\ [row EXCEPT !.slot = s].mode = row.mode
         /\ [row EXCEPT !.slot = s].role = row.role
         /\ [row EXCEPT !.slot = s].child = row.child
         /\ [row EXCEPT !.slot = s].state = row.state
BY DEF Process

\* The state of a process may change.
LEMMA StateRow ==
  ASSUME NEW row \in Process, NEW st \in States
  PROVE  /\ [row EXCEPT !.state = st] \in Process
         /\ [row EXCEPT !.state = st].mode = row.mode
         /\ [row EXCEPT !.state = st].role = row.role
         /\ [row EXCEPT !.state = st].child = row.child
         /\ [row EXCEPT !.state = st].state = st
BY DEF Process, States

\* A nav_state changes.
LEMMA SlotChanged ==
  ASSUME TypeOK, NEW p \in Pid, NEW s \in Slot \cup {Unknown},
         table' = [table EXCEPT ![p].slot = s]
  PROVE  Kept
<1> DEFINE r == [table[p] EXCEPT !.slot = s]
<1>1. table[p] \in Process
  BY TableFacts
<1>2. table' = [table EXCEPT ![p] = r]
  OBVIOUS
<1>3. /\ r \in Process /\ r.mode = table[p].mode /\ r.role = table[p].role
      /\ r.child = table[p].child /\ r.state = table[p].state
  BY <1>1, SlotRow
<1> HIDE DEF r
<1> QED BY <1>2, <1>3, RowChanged

\* A state changes, but to alive only for a node.
LEMMA StateChanged ==
  ASSUME TypeOK, ChildrenWrap, NEW p \in Pid, NEW st \in States,
         st # "alive" \/ table[p].role = "node",
         table' = [table EXCEPT ![p].state = st]
  PROVE  Kept
<1> DEFINE r == [table[p] EXCEPT !.state = st]
<1>1. table[p] \in Process
  BY TableFacts
<1>2. table' = [table EXCEPT ![p] = r]
  OBVIOUS
<1>3. /\ r \in Process /\ r.mode = table[p].mode /\ r.role = table[p].role
      /\ r.child = table[p].child /\ r.state = st
  BY <1>1, StateRow DEF States
<1> HIDE DEF r
<1>4. r.child /\ r.state = "alive" => table[p].state = "alive"
  BY <1>3 DEF ChildrenWrap
<1> QED BY <1>2, <1>3, <1>4, RowChanged

\* A node ends.
LEMMA NodeEndsKept ==
  ASSUME TypeOK, NEW p \in Pid, NodeEnds(p)
  PROVE  Kept
<1> DEFINE a == [table[p] EXCEPT !.state = "gone"]
           r == [a EXCEPT !.slot = Unknown]
<1>1. table[p] \in Process
  BY TableFacts
<1>2. table' = [table EXCEPT ![p] = r]
  <2>1. table' = [table EXCEPT ![p].state = "gone", ![p].slot = Unknown]
    BY DEF NodeEnds
  <2> QED BY <2>1, TableFacts DEF TypeOK
<1>3. /\ a \in Process /\ a.mode = table[p].mode /\ a.role = table[p].role
      /\ a.child = table[p].child /\ a.state = "gone"
  BY <1>1, StateRow DEF States
<1> HIDE DEF a
<1>4. /\ r \in Process /\ r.mode = table[p].mode /\ r.role = table[p].role
      /\ r.child = table[p].child /\ r.state = "gone"
  BY <1>3, SlotRow
<1> HIDE DEF r
<1> QED BY <1>2, <1>4, RowChanged

\* A wrapper ends and may pass its SIGTERM on.
LEMMA WrapperEndsKept ==
  ASSUME TypeOK, NEW w \in Pid, WrapperEnds(w)
  PROVE  Kept
<1>1. Len(table) \in Nat /\ Pid = 1..Len(table) /\ \A p \in Pid : table[p] \in Process
  BY TableFacts
<1>2. PICK heirs \in {{}, NodesOf(w)} :
        table' = [p \in Pid |->
                    IF p = w THEN [table[p] EXCEPT !.state = Dead(w)]
                    ELSE IF p \in heirs THEN [table[p] EXCEPT !.state = "told"]
                    ELSE table[p]]
  BY DEF WrapperEnds
<1>3. Dead(w) \in States \ {"alive"}
  BY DEF Dead, States
<1>4. \A p \in Pid :
        /\ table'[p] \in Process
        /\ table'[p].mode = table[p].mode /\ table'[p].role = table[p].role
        /\ table'[p].child = table[p].child
        /\ table'[p].state = "alive" => table[p].state = "alive"
  <2> SUFFICES ASSUME NEW p \in Pid
               PROVE  /\ table'[p] \in Process
                      /\ table'[p].mode = table[p].mode /\ table'[p].role = table[p].role
                      /\ table'[p].child = table[p].child
                      /\ table'[p].state = "alive" => table[p].state = "alive"
    OBVIOUS
  <2>1. CASE table'[p] = table[p]
    BY <2>1, <1>1
  <2>2. ASSUME NEW st \in States \ {"alive"}, table'[p] = [table[p] EXCEPT !.state = st]
        PROVE  /\ table'[p] \in Process
               /\ table'[p].mode = table[p].mode /\ table'[p].role = table[p].role
               /\ table'[p].child = table[p].child
               /\ table'[p].state # "alive"
    BY <2>2, <1>1, StateRow
  <2>3. \/ table'[p] = table[p]
        \/ table'[p] = [table[p] EXCEPT !.state = Dead(w)]
        \/ table'[p] = [table[p] EXCEPT !.state = "told"]
    BY <1>2
  <2>4. "told" \in States \ {"alive"}
    BY DEF States
  <2> QED BY <2>1, <2>2, <2>3, <2>4, <1>3
<1>5. table' = [p \in Pid |-> table'[p]]
  BY <1>2
<1>6. table' \in Seq(Process) /\ Len(table') = Len(table) /\ Pid' = Pid
  BY <1>4, <1>5, SameLength DEF Pid
<1> QED BY <1>1, <1>4, <1>6 DEF Kept

\* A process step keeps the list, and what it adds to the news is of its type.
LEMMA ProcessStepKept ==
  ASSUME TypeOK, ChildrenWrap, NEW p \in Pid, ProcessStep(p)
  PROVE  Kept /\ news' \subseteq News
<1>1. table[p] \in Process /\ news \subseteq News /\ p \in Nat
  BY TableFacts DEF TypeOK
<1>2. CASE WrapperStartsNode(p)
  <2>1. Start(table[p].mode, "node", p) /\ news' = news
    BY <1>2 DEF WrapperStartsNode
  <2>2. table[p].mode \in Mode
    BY <1>1 DEF Process
  <2> QED BY <2>1, <2>2, <1>1, NodeStarted
<1>3. CASE Registers(p)
  <2>1. PICK s \in Slot :
          /\ table' = [table EXCEPT ![p].slot = s]
          /\ \/ news' = news \cup {[mode |-> table[p].mode, slot |-> s]}
             \/ UNCHANGED news
    BY <1>3 DEF Registers
  <2>2. [mode |-> table[p].mode, slot |-> s] \in News
    BY <1>1 DEF Process, News
  <2> QED BY <2>1, <2>2, <1>1, SlotChanged
<1>4. CASE Announce(p)
  <2>1. [mode |-> table[p].mode, slot |-> table[p].slot] \in News
    BY <1>1, <1>4 DEF Announce, Process, News
  <2> QED BY <2>1, <1>1, <1>4, TableUnchanged DEF Announce
<1>5. CASE LosesFmu(p)
  BY <1>5, <1>1, SlotChanged DEF LosesFmu
<1>6. CASE RetriesAfterSigterm(p)
  BY <1>6, <1>1, StateChanged DEF RetriesAfterSigterm, States
<1>7. CASE NodeEnds(p)
  BY <1>7, <1>1, NodeEndsKept DEF NodeEnds
<1>8. CASE WrapperEnds(p)
  BY <1>8, <1>1, WrapperEndsKept DEF WrapperEnds
<1> QED BY <1>2, <1>3, <1>4, <1>5, <1>6, <1>7, <1>8 DEF ProcessStep

-----------------------------------------------------------------------------
\* The monitor's steps.

\* The rows of a list that only grows keep naming its processes.
LEMMA TypesKept ==
  ASSUME TypeOK, Kept
  PROVE  table' \in Seq(Process) /\ tracked \in [Mode -> 0..Len(table')]
<1>1. Len(table) \in Nat /\ Len(table') \in Nat /\ Len(table) <= Len(table')
  BY TableFacts DEF Kept
<1>2. 0..Len(table) \subseteq 0..Len(table')
  BY <1>1
<1> QED BY <1>2 DEF Kept, TypeOK

\* What pgrep lists is a process, or nothing.
LEMMA PgrepFacts ==
  ASSUME TypeOK, NEW m \in Mode
  PROVE  Pgrep(m) \subseteq 0..Len(table) /\ Target(m) \subseteq 0..Len(table)
BY TableFacts DEF Pgrep, Matches, Target, TypeOK

\* A SIGTERM keeps the list.
LEMMA TerminateKept ==
  ASSUME TypeOK, ChildrenWrap, Terminate
  PROVE  Kept
<1>1. CASE ~Exists(handler.pid)
  BY <1>1, TableUnchanged DEF Terminate
<1>2. CASE Exists(handler.pid)
  <2>1. PICK st \in Signalled(handler.pid) :
          table' = [table EXCEPT ![handler.pid].state = st]
    BY <1>2 DEF Terminate
  <2>2. st \in States \ {"alive"} /\ handler.pid \in Pid
    BY <1>2 DEF Signalled, States, Exists
  <2> QED BY <2>1, <2>2, StateChanged
<1> QED BY <1>1, <1>2

\* After a restart nothing is a child of the monitor.
LEMMA RestartKept ==
  ASSUME TypeOK, Restart
  PROVE  Kept /\ \A p \in Pid' : ~table'[p].child
<1>1. Len(table) \in Nat /\ Pid = 1..Len(table) /\ \A p \in Pid : table[p] \in Process
  BY TableFacts
<1>2. table' = [p \in Pid |->
                  [table[p] EXCEPT !.child = FALSE,
                                   !.state = IF @ = "zombie" THEN "gone" ELSE @]]
  BY DEF Restart
<1>3. \A p \in Pid : /\ table'[p] \in Process /\ ~table'[p].child
                     /\ table'[p].mode = table[p].mode
  <2> SUFFICES ASSUME NEW p \in Pid
               PROVE  table'[p] \in Process /\ ~table'[p].child
                      /\ table'[p].mode = table[p].mode
    OBVIOUS
  <2>1. table'[p] = [table[p] EXCEPT !.child = FALSE,
                                     !.state = IF @ = "zombie" THEN "gone" ELSE @]
    BY <1>2
  <2> QED BY <2>1, <1>1 DEF Process
<1>4. table' = [p \in Pid |-> table'[p]]
  BY <1>2
<1>5. table' \in Seq(Process) /\ Len(table') = Len(table) /\ Pid' = Pid
  BY <1>3, <1>4, SameLength DEF Pid
<1> QED BY <1>1, <1>3, <1>5 DEF Kept

\* A fork adds a child.
LEMMA SpawnFacts ==
  ASSUME TypeOK, Spawn
  PROVE  \/ /\ UNCHANGED <<table, tracked>>
         \/ /\ table' \in Seq(Process) /\ Len(table') = Len(table) + 1
            /\ Pid' = 1..(Len(table) + 1)
            /\ \A p \in Pid : table'[p] = table[p]
            /\ table'[Len(table) + 1].mode = handler.mode
            /\ table'[Len(table) + 1].role = "wrapper"
            /\ tracked' = [tracked EXCEPT ![handler.mode] = Len(table) + 1]
            /\ ~Exists(handler.pid) /\ handler.mode \in Mode
<1> SUFFICES ASSUME ~UNCHANGED <<table, tracked>>
             PROVE  /\ table' \in Seq(Process) /\ Len(table') = Len(table) + 1
                    /\ Pid' = 1..(Len(table) + 1)
                    /\ \A p \in Pid : table'[p] = table[p]
                    /\ table'[Len(table) + 1].mode = handler.mode
                    /\ table'[Len(table) + 1].role = "wrapper"
                    /\ tracked' = [tracked EXCEPT ![handler.mode] = Len(table) + 1]
                    /\ ~Exists(handler.pid) /\ handler.mode \in Mode
  OBVIOUS
<1> DEFINE r == [mode |-> handler.mode, role |-> "wrapper", parent |-> 0,
                 child |-> TRUE, state |-> "alive", slot |-> Unknown]
<1>1. /\ Start(handler.mode, "wrapper", 0) /\ ~Exists(handler.pid)
      /\ tracked' = [tracked EXCEPT ![handler.mode] = Len(table) + 1]
  BY DEF Spawn
<1>2. handler.mode \in Mode
  BY DEF Spawn, TypeOK, Handlers, Idle
<1>3. r \in Process /\ r.mode = handler.mode /\ r.role = "wrapper"
  BY <1>2 DEF Process
<1>4. table' = Append(table, r)
  BY <1>1 DEF Start
<1> HIDE DEF r
<1>5. /\ table' \in Seq(Process) /\ Len(table') = Len(table) + 1
      /\ Pid' = 1..(Len(table) + 1)
      /\ \A p \in Pid : table'[p] = table[p]
      /\ table'[Len(table) + 1] = r
  BY <1>3, <1>4, RowAdded
<1> QED BY <1>1, <1>2, <1>3, <1>5

-----------------------------------------------------------------------------
(* The invariant *)

Inv ==
  TypeOK /\ ChildrenWrap /\ WaitsForNothing /\ RegisterDropped /\ SpawnedIsTracked

\* The processes move and the monitor does not.
LEMMA ProcessesMove ==
  ASSUME Inv, Kept, news' \subseteq News, UNCHANGED monitorVars
  PROVE  Inv'
<1> USE DEF Inv, monitorVars
<1>1. TypeOK'
  <2>1. table' \in Seq(Process) /\ tracked' \in [Mode -> 0..Len(table')]
    BY TypesKept
  <2> QED BY <2>1 DEF TypeOK
<1>2. ChildrenWrap'
  BY DEF Kept, ChildrenWrap
<1>3. WaitsForNothing' /\ RegisterDropped'
  BY DEF WaitsForNothing, RegisterDropped
<1>4. SpawnedIsTracked'
  <2> SUFFICES ASSUME NEW p \in Pid', table'[p].child, table'[p].state = "alive"
               PROVE  \/ tracked'[table'[p].mode] = p
                      \/ handler' # Idle /\ handler'.op = "unregister" /\ handler'.pid = p
    BY DEF SpawnedIsTracked
  <2>1. /\ p \in Pid /\ table[p].child /\ table[p].state = "alive"
        /\ table'[p].mode = table[p].mode
    BY DEF Kept
  <2> QED BY <2>1 DEF SpawnedIsTracked
<1> QED BY <1>1, <1>2, <1>3, <1>4

\* What is read goes into the cache while no handler runs.
LEMMA LearnInv ==
  ASSUME Inv, NEW n \in news, Learn(n)
  PROVE  Inv'
<1> USE DEF Inv
<1>1. n \in News /\ n.slot \in Slot \cup {Unknown} /\ n.mode \in Mode
  BY DEF TypeOK, News
<1>2. /\ UNCHANGED <<table, tracked, handler, answer, handled, restarts>> /\ handler = Idle
      /\ news' \subseteq news /\ ids' = [ids EXCEPT ![n.mode] = n.slot]
  BY DEF Learn, ExecutorFree
<1>3. TypeOK'
  BY <1>1, <1>2 DEF TypeOK
<1>4. ChildrenWrap' /\ SpawnedIsTracked'
  BY <1>2 DEF ChildrenWrap, SpawnedIsTracked, Pid
<1>5. WaitsForNothing' /\ RegisterDropped'
  BY <1>2 DEF WaitsForNothing, RegisterDropped
<1> QED BY <1>3, <1>4, <1>5

\* SET_MODE touches nothing but its handler, and waits only while the cache has
\* nothing.
LEMMA SetModeInv ==
  ASSUME Inv, ModeAssumption,
         (\E m \in Mode : HandleSetMode(m)) \/ LookUp \/ GiveUp
  PROVE  Inv'
<1> USE DEF Inv
<1>1. /\ UNCHANGED <<table, news, tracked, ids, restarts>>
      /\ handled' \in 0..MaxCommands
  BY DEF HandleSetMode, LookUp, GiveUp, Command, TypeOK, ModeAssumption
<1>2. /\ handler' \in Handlers /\ answer' \in {"none", "ACCEPTED", "REJECTED", "FAILED"}
      /\ handler' = Idle \/ handler'.op = "set_mode"
      /\ handler = Idle \/ handler.op = "set_mode"
      /\ handler' # Idle /\ handler'.looks > 0 => ids[handler'.mode] = Unknown
  <2>1. CASE \E m \in Mode : HandleSetMode(m)
    BY <2>1 DEF HandleSetMode, Command, ExecutorFree, Busy, Handlers
  <2>2. CASE LookUp
    <3>1. handler \in [op : {"set_mode", "register", "unregister"}, mode : Mode,
                       pid : Nat, looks : Nat] /\ handler.op = "set_mode"
      BY <2>2 DEF LookUp, TypeOK, Handlers, Idle
    <3>2. CASE Reply("ACCEPTED")
      BY <3>1, <3>2 DEF Reply, Handlers
    <3>3. CASE /\ ids[handler.mode] = Unknown /\ UNCHANGED answer
               /\ handler' = [handler EXCEPT !.looks = @ + 1]
      <4>1. /\ handler' \in [op : {"set_mode", "register", "unregister"}, mode : Mode,
                            pid : Nat, looks : Nat]
            /\ handler'.op = "set_mode" /\ handler'.mode = handler.mode
        BY <3>1, <3>3
      <4>2. answer' \in {"none", "ACCEPTED", "REJECTED", "FAILED"}
        BY <3>3 DEF TypeOK
      <4> QED BY <3>1, <3>3, <4>1, <4>2 DEF Handlers
    <3> QED BY <2>2, <3>2, <3>3 DEF LookUp
  <2>3. CASE GiveUp
    BY <2>3 DEF GiveUp, Reply, Handlers
  <2> QED BY <2>1, <2>2, <2>3
<1>3. TypeOK'
  BY <1>1, <1>2 DEF TypeOK
<1>4. ChildrenWrap'
  BY <1>1 DEF ChildrenWrap, Pid
<1>5. SpawnedIsTracked'
  BY <1>1, <1>2 DEF SpawnedIsTracked, Pid
<1>6. WaitsForNothing'
  BY <1>1, <1>2 DEF WaitsForNothing
<1>7. RegisterDropped'
  BY <1>2 DEF RegisterDropped
<1> QED BY <1>3, <1>4, <1>5, <1>6, <1>7

\* A refusal changes only the count of commands and the answer.
LEMMA RefuseInv ==
  ASSUME Inv, ModeAssumption, NEW m \in Mode, RefuseRegister(m) \/ RefuseUnregister(m)
  PROVE  Inv'
<1> USE DEF Inv
<1>1. /\ UNCHANGED <<table, news, tracked, ids, restarts>> /\ handled' \in 0..MaxCommands
      /\ handler = Idle /\ handler' = Idle /\ answer' = "REJECTED"
  BY DEF RefuseRegister, RefuseUnregister, Command, ExecutorFree, Reply, TypeOK,
         ModeAssumption
<1>2. TypeOK'
  BY <1>1 DEF TypeOK, Handlers
<1>3. ChildrenWrap' /\ SpawnedIsTracked'
  BY <1>1 DEF ChildrenWrap, SpawnedIsTracked, Pid
<1>4. WaitsForNothing' /\ RegisterDropped'
  BY <1>1 DEF WaitsForNothing, RegisterDropped
<1> QED BY <1>2, <1>3, <1>4

\* REGISTER_MODE drops an entry only of a process that is gone.
LEMMA RegisterInv ==
  ASSUME Inv, ModeAssumption, NEW m \in Mode, HandleRegister(m)
  PROVE  Inv'
<1> USE DEF Inv
<1>1. PICK q \in Pgrep(m) : Busy("register", m, q)
  BY DEF HandleRegister
<1>2. /\ UNCHANGED <<table, news, ids, restarts>> /\ handled' \in 0..MaxCommands
      /\ handler = Idle /\ ~Exists(tracked[m])
      /\ tracked' = [tracked EXCEPT ![m] = 0]
  BY DEF HandleRegister, Command, ExecutorFree, TypeOK, ModeAssumption
<1>3. /\ handler' = [op |-> "register", mode |-> m, pid |-> q, looks |-> 0]
      /\ answer' = "none" /\ q \in Nat
  BY <1>1, PgrepFacts, TableFacts DEF Busy
<1>4. TypeOK'
  <2>1. tracked' \in [Mode -> 0..Len(table)]
    BY <1>2, TableFacts DEF TypeOK
  <2> QED BY <1>2, <1>3, <2>1 DEF TypeOK, Handlers
<1>5. ChildrenWrap'
  BY <1>2 DEF ChildrenWrap, Pid
<1>6. SpawnedIsTracked'
  <2> SUFFICES ASSUME NEW p \in Pid, table[p].child, table[p].state = "alive"
               PROVE  tracked'[table[p].mode] = p
    BY <1>2 DEF SpawnedIsTracked, Pid
  <2>1. tracked[table[p].mode] = p
    BY <1>2 DEF SpawnedIsTracked
  <2>2. table[p].mode # m
    BY <2>1, <1>2 DEF Exists
  <2> QED BY <2>1, <2>2, <1>2 DEF TypeOK
<1>7. WaitsForNothing' /\ RegisterDropped'
  BY <1>2, <1>3 DEF WaitsForNothing, RegisterDropped, TypeOK
<1> QED BY <1>4, <1>5, <1>6, <1>7

\* The entry adopted replaces none.
LEMMA AdoptInv ==
  ASSUME Inv, Adopt
  PROVE  Inv'
<1> USE DEF Inv
<1>1. /\ UNCHANGED <<table, news, ids, handled, restarts>>
      /\ handler # Idle /\ handler.op = "register" /\ Exists(handler.pid)
      /\ handler.mode \in Mode
      /\ tracked' = [tracked EXCEPT ![handler.mode] = handler.pid]
      /\ handler' = Idle /\ answer' = "ACCEPTED"
  BY DEF Adopt, Reply, TypeOK, Handlers, Idle
<1>2. tracked[handler.mode] = 0
  BY <1>1 DEF RegisterDropped
<1>3. TypeOK'
  <2>1. tracked' \in [Mode -> 0..Len(table)]
    BY <1>1, TableFacts DEF TypeOK, Exists
  <2> QED BY <1>1, <2>1 DEF TypeOK, Handlers
<1>4. ChildrenWrap'
  BY <1>1 DEF ChildrenWrap, Pid
<1>5. SpawnedIsTracked'
  <2> SUFFICES ASSUME NEW p \in Pid, table[p].child, table[p].state = "alive"
               PROVE  tracked'[table[p].mode] = p
    BY <1>1 DEF SpawnedIsTracked, Pid
  <2>1. tracked[table[p].mode] = p /\ p # 0
    BY <1>1, TableFacts DEF SpawnedIsTracked
  <2>2. table[p].mode # handler.mode
    BY <2>1, <1>2
  <2> QED BY <2>1, <2>2, <1>1 DEF TypeOK
<1>6. WaitsForNothing' /\ RegisterDropped'
  BY <1>1 DEF WaitsForNothing, RegisterDropped
<1> QED BY <1>3, <1>4, <1>5, <1>6

\* A fork, or one that fails.
LEMMA SpawnInv ==
  ASSUME Inv, Spawn
  PROVE  Inv'
<1> USE DEF Inv
<1>1. /\ UNCHANGED <<news, ids, handled, restarts>>
      /\ handler # Idle /\ handler.op = "register" /\ handler.mode \in Mode
      /\ handler' = Idle /\ answer' \in {"ACCEPTED", "FAILED"}
  BY DEF Spawn, Reply, TypeOK, Handlers, Idle
<1>2. tracked[handler.mode] = 0 /\ Len(table) \in Nat /\ Pid = 1..Len(table)
  BY <1>1, TableFacts DEF RegisterDropped
<1>3. WaitsForNothing' /\ RegisterDropped'
  BY <1>1 DEF WaitsForNothing, RegisterDropped
<1>4. CASE UNCHANGED <<table, tracked>>
  <2>1. TypeOK'
    BY <1>1, <1>4 DEF TypeOK, Handlers
  <2>2. ChildrenWrap' /\ SpawnedIsTracked'
    BY <1>1, <1>4 DEF ChildrenWrap, SpawnedIsTracked, Pid
  <2> QED BY <2>1, <2>2, <1>3
<1>5. CASE ~UNCHANGED <<table, tracked>>
  <2>1. /\ table' \in Seq(Process) /\ Len(table') = Len(table) + 1
        /\ Pid' = 1..(Len(table) + 1)
        /\ \A p \in Pid : table'[p] = table[p]
        /\ table'[Len(table) + 1].mode = handler.mode
        /\ table'[Len(table) + 1].role = "wrapper"
        /\ tracked' = [tracked EXCEPT ![handler.mode] = Len(table) + 1]
    BY <1>5, SpawnFacts
  <2>2. TypeOK'
    <3>1. tracked' \in [Mode -> 0..Len(table')]
      BY <1>1, <1>2, <2>1 DEF TypeOK
    <3> QED BY <1>1, <2>1, <3>1 DEF TypeOK, Handlers
  <2>3. ChildrenWrap'
    BY <1>2, <2>1 DEF ChildrenWrap
  <2>4. SpawnedIsTracked'
    <3> SUFFICES ASSUME NEW p \in Pid', table'[p].child, table'[p].state = "alive"
                 PROVE  tracked'[table'[p].mode] = p
      BY <1>1 DEF SpawnedIsTracked
    <3>1. CASE p = Len(table) + 1
      BY <3>1, <2>1, <1>1 DEF TypeOK
    <3>2. CASE p \in Pid
      <4>1. /\ tracked[table[p].mode] = p /\ p # 0
            /\ table'[p] = table[p]
        BY <1>1, <1>2, <2>1, <3>2 DEF SpawnedIsTracked
      <4>2. table[p].mode # handler.mode
        BY <4>1, <1>2
      <4> QED BY <4>1, <4>2, <2>1 DEF TypeOK
    <3> QED BY <3>1, <3>2, <1>2, <2>1
  <2> QED BY <2>2, <2>3, <2>4, <1>3
<1> QED BY <1>4, <1>5

\* UNREGISTER_MODE drops the entry of the process it is about to signal.
LEMMA UnregisterInv ==
  ASSUME Inv, ModeAssumption, NEW m \in Mode, HandleUnregister(m)
  PROVE  Inv'
<1> USE DEF Inv
<1>1. PICK q \in Target(m) \ {0} : Busy("unregister", m, q)
  BY DEF HandleUnregister
<1>2. /\ UNCHANGED <<table, news, restarts>> /\ handled' \in 0..MaxCommands
      /\ handler = Idle
      /\ tracked' = [tracked EXCEPT ![m] = 0]
      /\ ids' = [ids EXCEPT ![m] = Unknown]
  BY DEF HandleUnregister, Command, ExecutorFree, TypeOK, ModeAssumption
<1>3. /\ handler' = [op |-> "unregister", mode |-> m, pid |-> q, looks |-> 0]
      /\ answer' = "none" /\ q \in Nat
  BY <1>1, PgrepFacts, TableFacts DEF Busy
<1>4. TypeOK'
  <2>1. tracked' \in [Mode -> 0..Len(table)]
    BY <1>2, TableFacts DEF TypeOK
  <2> QED BY <1>2, <1>3, <2>1 DEF TypeOK, Handlers
<1>5. ChildrenWrap'
  BY <1>2 DEF ChildrenWrap, Pid
<1>6. SpawnedIsTracked'
  <2> SUFFICES ASSUME NEW p \in Pid, table[p].child, table[p].state = "alive"
               PROVE  tracked'[table[p].mode] = p \/ handler'.pid = p
    BY <1>2, <1>3 DEF SpawnedIsTracked, Pid, Idle
  <2>1. tracked[table[p].mode] = p /\ p # 0
    BY <1>2, TableFacts DEF SpawnedIsTracked
  <2>2. CASE table[p].mode = m
    <3>1. Target(m) = {p}
      BY <2>1, <2>2 DEF Target
    <3> QED BY <3>1, <1>1, <1>3
  <2>3. CASE table[p].mode # m
    BY <2>1, <2>3, <1>2 DEF TypeOK
  <2> QED BY <2>2, <2>3
<1>7. WaitsForNothing' /\ RegisterDropped'
  BY <1>3 DEF WaitsForNothing, RegisterDropped
<1> QED BY <1>4, <1>5, <1>6, <1>7

\* The signalled process is alive no more, untold.
LEMMA TerminateInv ==
  ASSUME Inv, Terminate
  PROVE  Inv'
<1> USE DEF Inv
<1>1. /\ UNCHANGED <<news, tracked, ids, handled, restarts>>
      /\ handler # Idle /\ handler.op = "unregister"
      /\ handler' = Idle /\ answer' = "ACCEPTED"
  BY DEF Terminate, Reply, TypeOK, Handlers, Idle
<1>2. Kept
  BY TerminateKept
<1>3. TypeOK'
  <2>1. table' \in Seq(Process) /\ tracked' \in [Mode -> 0..Len(table')]
    BY <1>1, <1>2, TypesKept
  <2> QED BY <1>1, <2>1 DEF TypeOK, Handlers
<1>4. ChildrenWrap'
  BY <1>2 DEF Kept, ChildrenWrap
<1>5. SpawnedIsTracked'
  <2> SUFFICES ASSUME NEW p \in Pid', table'[p].child, table'[p].state = "alive"
               PROVE  tracked'[table'[p].mode] = p
    BY DEF SpawnedIsTracked
  <2>1. /\ p \in Pid /\ table[p].child /\ table[p].state = "alive"
        /\ table'[p].mode = table[p].mode
    BY <1>2 DEF Kept
  <2>2. p # handler.pid
    <3> SUFFICES ASSUME p = handler.pid PROVE FALSE
      OBVIOUS
    <3>1. Exists(handler.pid) /\ table[p] \in Process
      BY <2>1, TableFacts DEF Exists
    <3>2. PICK st \in Signalled(p) : table' = [table EXCEPT ![p].state = st]
      BY <3>1 DEF Terminate
    <3>3. st # "alive"
      BY DEF Signalled
    <3>4. table'[p] = [table[p] EXCEPT !.state = st]
      BY <2>1, <3>2, TableFacts DEF TypeOK
    <3>5. table'[p].state = st
      BY <3>1, <3>4 DEF Process
    <3> QED BY <3>3, <3>5
  <2> QED BY <1>1, <2>1, <2>2 DEF SpawnedIsTracked
<1>6. WaitsForNothing' /\ RegisterDropped'
  BY <1>1 DEF WaitsForNothing, RegisterDropped
<1> QED BY <1>3, <1>4, <1>5, <1>6

\* A restarted monitor has no children and nothing in progress.
LEMMA RestartInv ==
  ASSUME Inv, ModeAssumption, Restart
  PROVE  Inv'
<1> USE DEF Inv
<1>1. /\ UNCHANGED <<news, handled>>
      /\ tracked' = [m \in Mode |-> 0] /\ ids' = [m \in Mode |-> Unknown]
      /\ handler' = Idle /\ answer' = "none" /\ restarts' \in 0..MaxRestarts
  <2>1. restarts < MaxRestarts /\ restarts' = restarts + 1
    BY DEF Restart
  <2>2. restarts \in 0..MaxRestarts /\ MaxRestarts \in Nat
    BY DEF TypeOK, ModeAssumption
  <2>3. restarts' \in 0..MaxRestarts
    BY <2>1, <2>2
  <2> QED BY <2>3 DEF Restart
<1>2. Kept /\ \A p \in Pid' : ~table'[p].child
  BY RestartKept
<1>3. TypeOK'
  <2>1. table' \in Seq(Process) /\ tracked' \in [Mode -> 0..Len(table')]
    BY <1>1, <1>2 DEF Kept
  <2> QED BY <1>1, <2>1 DEF TypeOK, Handlers
<1>4. ChildrenWrap' /\ SpawnedIsTracked'
  BY <1>2 DEF ChildrenWrap, SpawnedIsTracked
<1>5. WaitsForNothing' /\ RegisterDropped'
  BY <1>1 DEF WaitsForNothing, RegisterDropped
<1> QED BY <1>3, <1>4, <1>5

\* Every step keeps the invariant.
LEMMA StepInv ==
  ASSUME Inv, ModeAssumption, [Next]_vars
  PROVE  Inv'
<1>1. CASE \E p \in Pid : ProcessStep(p)
  <2>1. PICK p \in Pid : ProcessStep(p)
    BY <1>1
  <2>2. UNCHANGED monitorVars
    BY <2>1 DEF ProcessStep, WrapperStartsNode, Registers, Announce, LosesFmu,
                RetriesAfterSigterm, NodeEnds, WrapperEnds
  <2> QED BY <2>1, <2>2, ProcessStepKept, ProcessesMove DEF Inv
<1>2. CASE \E m \in Mode : LaunchedElsewhere(m)
  <2>1. PICK m \in Mode : LaunchedElsewhere(m)
    BY <1>2
  <2>2. Start(m, "node", 0) /\ news' = news /\ UNCHANGED monitorVars
    BY <2>1 DEF LaunchedElsewhere
  <2>3. Kept /\ news' \subseteq News
    BY <2>2, NodeStarted DEF Inv, TypeOK
  <2> QED BY <2>2, <2>3, ProcessesMove
<1>3. CASE \E m \in Mode : CommandStep(m)
  BY <1>3, SetModeInv, RefuseInv, RegisterInv, UnregisterInv DEF CommandStep
<1>4. CASE \E n \in news : OnModeAnnounce(n) \/ OnRegisterReply(n)
  BY <1>4, LearnInv DEF OnModeAnnounce, OnRegisterReply
<1>5. CASE HandlerStep
  BY <1>5, SetModeInv, AdoptInv, SpawnInv, TerminateInv DEF HandlerStep
<1>6. CASE Restart
  BY <1>6, RestartInv
<1>7. CASE UNCHANGED vars
  <2>1. UNCHANGED <<table, news>> /\ UNCHANGED monitorVars
    BY <1>7 DEF vars
  <2> QED BY <2>1, TableUnchanged, ProcessesMove DEF Inv, TypeOK
<1> QED BY <1>1, <1>2, <1>3, <1>4, <1>5, <1>6, <1>7 DEF Next

\* At the start there is nothing.
LEMMA InitInv ==
  ASSUME Init, ModeAssumption
  PROVE  Inv
<1>1. table = <<>> /\ table \in Seq(Process) /\ Len(table) = 0 /\ Pid = {}
  BY EmptySeq, LenProperties DEF Init, Pid
<1>2. TypeOK
  BY <1>1 DEF Init, TypeOK, Handlers, ModeAssumption
<1> QED
  BY <1>1, <1>2 DEF Init, Inv, ChildrenWrap, WaitsForNothing, RegisterDropped,
                    SpawnedIsTracked

\* The invariant holds throughout.
LEMMA InvHolds == Spec => []Inv
<1>1. Init => Inv
  BY InitInv, ModeAssumption
<1>2. Inv /\ [Next]_vars => Inv'
  BY StepInv, ModeAssumption
<1> QED BY <1>1, <1>2, PTL DEF Spec

-----------------------------------------------------------------------------
\* The monitor's tables, its handler and the list of processes keep their types,
\* whatever processes start and end meanwhile.
THEOREM TypeCorrect == Spec => []TypeOK
<1>1. Inv => TypeOK
  BY DEF Inv
<1> QED BY <1>1, InvHolds, PTL

\* A wrapper the monitor has forked and not told to end is the tracked process of
\* its mode, or the one UNREGISTER_MODE is about to signal: registrations,
\* adoptions, deaths and restarts in any order lose none.
THEOREM SpawnedStaysTracked == Spec => []SpawnedIsTracked
<1>1. Inv => SpawnedIsTracked
  BY DEF Inv
<1> QED BY <1>1, InvHolds, PTL

\* A SET_MODE that finds no nav_state at its first look is never accepted: the
\* callbacks that could bring one wait for the thread it sleeps on.
THEOREM WaitingIsInVain == Spec => WaitIsInVain
<1> DEFINE A == handler # Idle /\ handler.op = "set_mode" /\ handler.looks > 0 /\ handler' = Idle
                  => answer' # "ACCEPTED"
<1>1. Inv /\ [Next]_vars => [A]_vars
  <2> SUFFICES ASSUME Inv, Next, handler # Idle, handler.op = "set_mode",
                      handler.looks > 0, handler' = Idle
               PROVE  answer' # "ACCEPTED"
    BY DEF vars
  <2>1. ids[handler.mode] = Unknown
    BY DEF Inv, WaitsForNothing
  <2>2. CASE \E p \in Pid : ProcessStep(p)
    BY <2>2 DEF ProcessStep, WrapperStartsNode, Registers, Announce, LosesFmu,
                RetriesAfterSigterm, NodeEnds, WrapperEnds, monitorVars
  <2>3. CASE \E m \in Mode : LaunchedElsewhere(m) \/ CommandStep(m)
    BY <2>3 DEF LaunchedElsewhere, CommandStep, HandleSetMode, RefuseRegister,
                HandleRegister, RefuseUnregister, HandleUnregister, Command,
                ExecutorFree, monitorVars
  <2>4. CASE \E n \in news : OnModeAnnounce(n) \/ OnRegisterReply(n)
    BY <2>4 DEF OnModeAnnounce, OnRegisterReply, Learn, ExecutorFree
  <2>5. CASE HandlerStep
    <3>1. LookUp \/ GiveUp
      BY <2>5 DEF HandlerStep, Adopt, Spawn, Terminate
    <3>2. ~(ids[handler.mode] # Unknown /\ Reply("ACCEPTED"))
      BY <2>1
    <3>3. CASE LookUp
      <4>1. handler' = [handler EXCEPT !.looks = @ + 1]
        BY <3>2, <3>3 DEF LookUp
      <4>2. handler \in [op : {"set_mode", "register", "unregister"}, mode : Mode,
                         pid : Nat, looks : Nat]
        BY DEF Inv, TypeOK, Handlers
      <4>3. handler'.op = "set_mode" /\ handler' # Idle
        BY <4>1, <4>2 DEF Idle
      <4> QED BY <4>3
    <3>4. CASE GiveUp
      BY <3>4 DEF GiveUp, Reply
    <3> QED BY <3>1, <3>3, <3>4
  <2>6. CASE Restart
    BY <2>6 DEF Restart
  <2> QED BY <2>2, <2>3, <2>4, <2>5, <2>6 DEF Next
<1>2. Spec => [][A]_vars
  BY <1>1, InvHolds, PTL DEF Spec
<1> QED BY <1>2 DEF WaitIsInVain
=============================================================================
