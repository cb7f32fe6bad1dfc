----------------------- MODULE DeliveryCommands_proofs -----------------------
(***************************************************************************)
(* Workflow commands: what the agent is told is true for any number of     *)
(* tabs, jobs and commands, and on a device with one tab a command stays   *)
(* retained until its outcome is known.                                    *)
(***************************************************************************)
EXTENDS DeliveryCommands, SequenceTheorems, TLAPS

-----------------------------------------------------------------------------
(* Part 1.  The queues: which commands a list of items holds.              *)

Cmds(items) == {items[i].cmd : i \in DOMAIN items}

Fresh(c) == [cmd |-> c, uncertain |-> FALSE]

Marked(items) == [items EXCEPT ![1].uncertain = TRUE]

LEMMA FreshItem == \A c \in Commands : Fresh(c) \in Item /\ Fresh(c).cmd = c
BY DEF Fresh, Item

LEMMA CmdsAreCommands ==
  ASSUME NEW items \in Seq(Item) PROVE Cmds(items) \subseteq Commands
<1>1. \A i \in DOMAIN items : items[i] \in Item
  BY ElementOfSeq, LenProperties
<1> QED
  BY <1>1 DEF Cmds, Item

LEMMA AppendCmds ==
  ASSUME NEW items \in Seq(Item), NEW c \in Commands
  PROVE  /\ Append(items, Fresh(c)) \in Seq(Item)
         /\ Cmds(Append(items, Fresh(c))) = Cmds(items) \cup {c}
<1> DEFINE next == Append(items, Fresh(c))
<1>1. next \in Seq(Item) /\ Len(next) = Len(items) + 1 /\ next[Len(items) + 1] = Fresh(c)
      /\ \A i \in 1..Len(items) : next[i] = items[i]
  BY FreshItem, AppendProperties
<1>2. DOMAIN next = 1..(Len(items) + 1) /\ DOMAIN items = 1..Len(items) /\ Len(items) \in Nat
  BY <1>1, LenProperties
<1> HIDE DEF next
<1>3. Cmds(next) \subseteq Cmds(items) \cup {c}
  BY <1>1, <1>2, FreshItem DEF Cmds
<1>4. Cmds(items) \cup {c} \subseteq Cmds(next)
  <2>1. Len(items) + 1 \in DOMAIN next /\ 1..Len(items) \subseteq DOMAIN next
    BY <1>2
  <2> QED
    BY <2>1, <1>1, <1>2, FreshItem DEF Cmds
<1> QED
  BY <1>1, <1>3, <1>4 DEF next

LEMMA TailCmds ==
  ASSUME NEW items \in Seq(Item), items # <<>>
  PROVE  /\ Tail(items) \in Seq(Item)
         /\ Cmds(Tail(items)) \subseteq Cmds(items)
         /\ Cmds(items) \subseteq Cmds(Tail(items)) \cup {items[1].cmd}
<1> DEFINE next == Tail(items)
<1>1. next \in Seq(Item) /\ Len(next) = Len(items) - 1
      /\ \A i \in 1..Len(next) : next[i] = items[i + 1]
  BY HeadTailProperties
<1>2. DOMAIN next = 1..Len(next) /\ DOMAIN items = 1..Len(items) /\ Len(items) \in Nat
  BY <1>1, LenProperties
<1> HIDE DEF next
<1>3. Cmds(next) \subseteq Cmds(items)
  <2>1. \A i \in DOMAIN next : i + 1 \in DOMAIN items /\ next[i] = items[i + 1]
    BY <1>1, <1>2
  <2> QED
    BY <2>1 DEF Cmds
<1>4. Cmds(items) \subseteq Cmds(next) \cup {items[1].cmd}
  <2>1. \A i \in DOMAIN items : i = 1 \/ (i - 1 \in DOMAIN next /\ next[i - 1] = items[i])
    <3>1. TAKE i \in DOMAIN items
    <3>2. i # 1 => i - 1 \in 1..Len(next) /\ (i - 1) + 1 = i
      BY <1>1, <1>2
    <3> QED
      BY <3>2, <1>1, <1>2
  <2> QED
    BY <2>1 DEF Cmds
<1> QED
  BY <1>1, <1>3, <1>4 DEF next

LEMMA HeadItem ==
  ASSUME NEW items \in Seq(Item), items # <<>>
  PROVE  items[1] \in Item /\ items[1].cmd \in Cmds(items)
<1>1. 1 \in DOMAIN items
  BY EmptySeq, LenProperties
<1> QED
  BY <1>1, ElementOfSeq, LenProperties DEF Cmds

LEMMA MarkedCmds ==
  ASSUME NEW items \in Seq(Item), items # <<>>
  PROVE  /\ Marked(items) \in Seq(Item) /\ Marked(items) # <<>>
         /\ Cmds(Marked(items)) = Cmds(items) /\ Marked(items)[1].cmd = items[1].cmd
<1> DEFINE head == [items[1] EXCEPT !.uncertain = TRUE]
<1>1. 1 \in DOMAIN items /\ DOMAIN items = 1..Len(items) /\ Len(items) \in Nat
  BY EmptySeq, LenProperties
<1>2. head \in Item /\ head.cmd = items[1].cmd
  BY HeadItem DEF Item
<1>3. Marked(items) = [items EXCEPT ![1] = head]
  BY DEF Marked
<1> HIDE DEF head
<1>4. Marked(items) \in Seq(Item)
  BY <1>1, <1>2, <1>3, ExceptSeq
<1>5. DOMAIN Marked(items) = DOMAIN items /\ Marked(items)[1] = head
      /\ \A i \in DOMAIN items : i # 1 => Marked(items)[i] = items[i]
  BY <1>1, <1>3
<1>6. Cmds(Marked(items)) = Cmds(items)
  <2>1. \A i \in DOMAIN items : Marked(items)[i].cmd = items[i].cmd
    BY <1>2, <1>5
  <2> QED
    BY <2>1, <1>5 DEF Cmds
<1>7. Marked(items) # <<>>
  BY <1>1, <1>5
<1> QED
  BY <1>2, <1>4, <1>5, <1>6, <1>7

-----------------------------------------------------------------------------
(* Part 2.  The inductive invariant.                                       *)

TabRow == [open : BOOLEAN, queue : Seq(Item), refs : SUBSET Commands,
           view : [Jobs -> 0..LastVersion+1],
           at : {"idle", "head", "posting", "reading"}, live : BOOLEAN,
           cmd : Commands \cup {NoCommand}, rest : Seq(Item),
           base : SUBSET Commands, conflict : BOOLEAN]

Request == [cmd : Commands, tab : Tabs \cup {NoTab},
            answer : {"none", "committed", "conflict", "refused", "failed"}]

AllGiven(S) == \A c \in S : Given(c)

(* No copy of the command can be accepted any more: its job has moved past *)
(* the version it was issued for, or was taken from the agent.  A version  *)
(* never decreases and a job never comes back, so this is for ever; it is  *)
(* what makes "conflict" a final answer although copies are under way.     *)
Void(c) ==
  /\ Given(c) /\ recorded[c] = 0
  /\ job[made[c].job].held => made[c].expected < job[made[c].job].version

JobOK(j) == job[j].held => job[j].version < LastVersion \/ job[j].version = 1

(* A given command was issued for a version its job has reached, and a     *)
(* recorded one brought the job to the version after that.                 *)
CommandOK(c) ==
  IF Given(c)
  THEN /\ made[c].expected \in 1..LastVersion-1
       /\ made[c].expected <= job[made[c].job].version
       /\ recorded[c] # 0 => /\ recorded[c] = made[c].expected + 1
                             /\ recorded[c] <= job[made[c].job].version
  ELSE recorded[c] = 0

ServerOK ==
  /\ job \in [Jobs -> [version : 1..LastVersion+1, held : BOOLEAN]]
  /\ made \in [Commands -> [job : Jobs \cup {NoCommand}, expected : 0..LastVersion,
                            live : BOOLEAN]]
  /\ recorded \in [Commands -> 0..LastVersion]
  /\ \A j \in Jobs : JobOK(j)
  /\ \A c \in Commands : CommandOK(c)

OutcomeOK(c) ==
  /\ outcome[c] = "confirmed" => recorded[c] # 0
  /\ outcome[c] = "conflict" => Void(c)

DeviceOK ==
  /\ stored \in Seq(Item) /\ AllGiven(Cmds(stored))
  /\ storedRefs \subseteq Commands /\ AllGiven(storedRefs)
  /\ outcome \in [Commands -> {"none", "confirmed", "conflict", "refused"}]
  /\ \A c \in Commands : OutcomeOK(c)

RowOK(row) ==
  /\ row \in TabRow
  /\ AllGiven(Cmds(row.queue)) /\ AllGiven(Cmds(row.rest))
  /\ AllGiven(row.refs) /\ AllGiven(row.base)
  /\ \A j \in Jobs : row.view[j] <= job[j].version
  /\ row.at \in {"posting", "reading"} =>
       row.cmd \in Commands /\ Given(row.cmd) /\ (row.live \/ row.rest # <<>>)
  /\ row.live => row.at \in {"posting", "reading"}
  /\ row.at # "idle" => row.open
  /\ row.conflict => row.at = "reading" /\ Void(row.cmd)

RequestOK(r) ==
  /\ r \in Request /\ Given(r.cmd)
  /\ r.answer = "committed" => recorded[r.cmd] # 0
  /\ r.answer = "conflict" => Void(r.cmd)

(* A tab that posts has exactly one request on the wire, for its command;  *)
(* no other tab has any.                                                   *)
PostOK(t) ==
  /\ \A r \in wire : r.tab = t => tab[t].at = "posting" /\ r.cmd = tab[t].cmd
  /\ \A r, s \in wire : r.tab = t /\ s.tab = t => r = s
  /\ tab[t].at = "posting" => \E r \in wire : r.tab = t

TabsOK ==
  /\ tab \in [Tabs -> TabRow]
  /\ \A t \in Tabs : RowOK(tab[t]) /\ PostOK(t)
  /\ \A r \in wire : RequestOK(r)

CommandsInv == ServerOK /\ DeviceOK /\ TabsOK

LEMMA InvInit == Init => CommandsInv
<1> SUFFICES ASSUME Init PROVE CommandsInv
  OBVIOUS
<1> USE CommandAssumption
<1>1. \A c \in Commands : ~Given(c) /\ recorded[c] = 0 /\ outcome[c] = "none"
  BY DEF Init, Given
<1>2. ServerOK
  <2>1. \A j \in Jobs : job[j] = [version |-> 1, held |-> TRUE]
    BY DEF Init
  <2> QED
    BY <1>1, <2>1 DEF Init, ServerOK, JobOK, CommandOK
<1>3. <<>> \in Seq(Item) /\ Cmds(<<>>) = {}
  BY EmptySeq DEF Cmds
<1>4. DeviceOK
  BY <1>1, <1>3 DEF Init, DeviceOK, AllGiven, OutcomeOK
<1>5. Closed \in TabRow
  BY <1>3 DEF Closed, TabRow
<1>6. RowOK(Closed)
  <2>1. \A j \in Jobs : Closed.view[j] = 0 /\ job[j].version = 1
    BY DEF Init, Closed
  <2> QED
    BY <1>3, <1>5, <2>1 DEF RowOK, AllGiven, Closed
<1>7. TabsOK
  <2>1. \A t \in Tabs : tab[t] = Closed
    BY DEF Init
  <2>2. Closed.at = "idle" /\ wire = {}
    BY DEF Init, Closed
  <2> QED
    BY <1>5, <1>6, <2>1, <2>2 DEF Init, TabsOK, PostOK
<1> QED
  BY <1>2, <1>4, <1>7 DEF CommandsInv

-----------------------------------------------------------------------------
(* Part 3.  What the server did stays done.                                *)

Later ==
  /\ \A c \in Commands : Given(c) => made'[c] = made[c]
  /\ \A c \in Commands : recorded[c] # 0 => recorded'[c] = recorded[c]
  /\ \A c \in Commands : recorded[c] = 0 /\ Given(c) /\ recorded'[c] # 0 => Acceptable(c)
  /\ \A j \in Jobs : job[j].version <= job'[j].version /\ (job'[j].held => job[j].held)

LEMMA ServerFacts ==
  ASSUME ServerOK
  PROVE  /\ \A j \in Jobs : job[j].version \in Nat
         /\ \A c \in Commands : made[c].expected \in Nat /\ recorded[c] \in Nat
                                /\ (Given(c) => made[c].job \in Jobs)
BY CommandAssumption DEF ServerOK, Given

LEMMA GivenStays ==
  ASSUME Later, NEW c \in Commands, Given(c) PROVE Given(c)'
BY DEF Later, Given

LEMMA VoidStays ==
  ASSUME ServerOK, ServerOK', Later, NEW c \in Commands, Void(c) PROVE Void(c)'
<1> DEFINE j == made[c].job
<1>1. Given(c) /\ j \in Jobs /\ made'[c] = made[c] /\ recorded[c] = 0
  BY ServerFacts DEF Void, Later
<1>2. job[j].version \in Nat /\ job'[j].version \in Nat /\ made[c].expected \in Nat
  BY <1>1, ServerFacts DEF ServerOK
<1>3. recorded'[c] = 0
  BY <1>1, <1>2 DEF Later, Void, Acceptable
<1> QED
  BY <1>1, <1>2, <1>3, GivenStays DEF Later, Void

LEMMA AllGivenStays ==
  ASSUME Later, NEW S \in SUBSET Commands, AllGiven(S) PROVE AllGiven(S)'
BY GivenStays DEF AllGiven

LEMMA RowLater ==
  ASSUME ServerOK, ServerOK', Later, NEW row, RowOK(row) PROVE RowOK(row)'
<1>1. row \in TabRow
  BY DEF RowOK
<1>2. /\ Cmds(row.queue) \subseteq Commands /\ Cmds(row.rest) \subseteq Commands
      /\ row.refs \subseteq Commands /\ row.base \subseteq Commands
  BY <1>1, CmdsAreCommands DEF TabRow
<1>3. /\ AllGiven(Cmds(row.queue))' /\ AllGiven(Cmds(row.rest))'
      /\ AllGiven(row.refs)' /\ AllGiven(row.base)'
  BY <1>2, AllGivenStays DEF RowOK, AllGiven, Cmds
<1>4. \A j \in Jobs : row.view[j] <= job'[j].version
  <2>1. TAKE j \in Jobs
  <2>2. row.view[j] \in Nat /\ job[j].version \in Nat /\ job'[j].version \in Nat
    BY <1>1, ServerFacts, CommandAssumption DEF TabRow, ServerOK
  <2>3. row.view[j] <= job[j].version /\ job[j].version <= job'[j].version
    BY DEF RowOK, Later
  <2> QED
    BY <2>2, <2>3
<1>5. row.at \in {"posting", "reading"} => row.cmd \in Commands /\ Given(row.cmd)'
  BY GivenStays DEF RowOK
<1>6. row.conflict => row.at = "reading" /\ Void(row.cmd)'
  BY VoidStays DEF RowOK
<1> QED
  BY <1>1, <1>3, <1>4, <1>5, <1>6 DEF RowOK

LEMMA RequestLater ==
  ASSUME ServerOK, ServerOK', Later, NEW r, RequestOK(r) PROVE RequestOK(r)'
<1>1. r \in Request /\ r.cmd \in Commands
  BY DEF RequestOK, Request
<1>2. Given(r.cmd)' /\ (Void(r.cmd) => Void(r.cmd)')
  BY <1>1, GivenStays, VoidStays DEF RequestOK
<1> QED
  BY <1>1, <1>2 DEF RequestOK, Later

LEMMA OutcomesLater ==
  ASSUME ServerOK, ServerOK', Later, NEW c \in Commands, OutcomeOK(c),
         outcome'[c] = outcome[c]
  PROVE  OutcomeOK(c)'
BY VoidStays DEF OutcomeOK, Later

LEMMA DeviceLater ==
  ASSUME CommandsInv, ServerOK', Later, UNCHANGED <<stored, storedRefs, outcome>>
  PROVE  DeviceOK'
<1>1. stored \in Seq(Item) /\ Cmds(stored) \subseteq Commands /\ storedRefs \subseteq Commands
  BY CmdsAreCommands DEF CommandsInv, DeviceOK
<1>2. AllGiven(Cmds(stored))' /\ AllGiven(storedRefs)'
  BY <1>1, GivenStays DEF CommandsInv, DeviceOK, AllGiven
<1>3. \A c \in Commands : OutcomeOK(c)'
  BY OutcomesLater DEF CommandsInv, DeviceOK
<1> QED
  BY <1>1, <1>2, <1>3 DEF CommandsInv, DeviceOK

-----------------------------------------------------------------------------
(* Part 4.  Steps that change one tab.                                     *)

LEMMA TabFacts ==
  ASSUME CommandsInv, NEW t \in Tabs
  PROVE  /\ tab \in [Tabs -> TabRow] /\ tab[t] \in TabRow
         /\ RowOK(tab[t]) /\ PostOK(t) /\ ServerOK /\ DeviceOK
BY DEF CommandsInv, TabsOK

LEMMA TabStep ==
  ASSUME CommandsInv, ServerOK', Later, DeviceOK', NEW t \in Tabs, NEW row,
         tab' = [tab EXCEPT ![t] = row], RowOK(row)', PostOK(t)',
         \A r \in wire' : r.tab \in Tabs \ {t} => r \in wire,
         \A r \in wire : r.tab \in Tabs \ {t} => r \in wire',
         \A r \in wire' : RequestOK(r)'
  PROVE  CommandsInv'
<1>1. row \in TabRow
  BY DEF RowOK
<1>2. tab \in [Tabs -> TabRow]
  BY DEF CommandsInv, TabsOK
<1>3. /\ tab' \in [Tabs -> TabRow] /\ tab'[t] = row
      /\ \A u \in Tabs : u # t => tab'[u] = tab[u]
  BY <1>1, <1>2
<1>4. ASSUME NEW u \in Tabs PROVE RowOK(tab[u])'
  <2>1. CASE u = t
    BY <2>1, <1>3
  <2>2. CASE u # t
    <3>1. PICK old : old = tab[u]
      OBVIOUS
    <3>2. RowOK(old)
      BY <3>1, TabFacts
    <3>3. RowOK(old)'
      BY <3>2, RowLater DEF CommandsInv
    <3>4. tab'[u] = old
      BY <3>1, <2>2, <1>3
    <3> QED
      BY <3>3, <3>4
  <2> QED
    BY <2>1, <2>2
<1>5. ASSUME NEW u \in Tabs PROVE PostOK(u)'
  <2>1. CASE u = t
    BY <2>1
  <2>2. CASE u # t
    <3>1. PostOK(u) /\ tab'[u] = tab[u]
      BY <2>2, <1>3, TabFacts
    <3>2. \A r \in wire' : r.tab = u => r \in wire
      BY <2>2
    <3>3. \A r \in wire : r.tab = u => r \in wire'
      BY <2>2
    <3> QED
      BY <3>1, <3>2, <3>3 DEF PostOK
  <2> QED
    BY <2>1, <2>2
<1>6. TabsOK'
  BY <1>3, <1>4, <1>5 DEF TabsOK
<1> QED
  BY <1>6 DEF CommandsInv

(* The server is not involved. *)
LEMMA StillServer ==
  ASSUME CommandsInv, UNCHANGED <<server, made>>
  PROVE  /\ ServerOK' /\ Later
         /\ \A c \in Commands : (Given(c)' <=> Given(c)) /\ (Void(c)' <=> Void(c))
<1>1. job' = job /\ recorded' = recorded /\ made' = made
  BY DEF server
<1>2. ServerOK'
  BY <1>1 DEF CommandsInv, ServerOK, JobOK, CommandOK, Given
<1>3. \A j \in Jobs : job[j].version <= job[j].version
  BY ServerFacts DEF CommandsInv
<1>4. Later
  BY <1>1, <1>3 DEF Later
<1> QED
  BY <1>1, <1>2, <1>4 DEF Given, Void

(* The tab has no request under way afterwards. *)
QuietWire(t) ==
  /\ \A r \in wire' : RequestOK(r) /\ r.tab # t
  /\ \A r \in wire' : r.tab \in Tabs => r \in wire
  /\ \A r \in wire : r.tab # t => r \in wire'

LEMMA QuietStep ==
  ASSUME CommandsInv, UNCHANGED <<server, made>>, DeviceOK', NEW t \in Tabs, NEW row,
         tab' = [tab EXCEPT ![t] = row], RowOK(row), row.at # "posting", QuietWire(t)
  PROVE  CommandsInv'
<1>1. ServerOK' /\ Later
  BY StillServer
<1>2. RowOK(row)'
  BY <1>1, RowLater DEF CommandsInv
<1>3. \A r \in wire' : RequestOK(r)'
  <2>1. TAKE r \in wire'
  <2>2. RequestOK(r)
    BY DEF QuietWire
  <2> QED
    BY <2>2, <1>1, RequestLater DEF CommandsInv
<1>4. tab'[t] = row
  BY TabFacts
<1>5. PostOK(t)'
  BY <1>4 DEF QuietWire, PostOK
<1>6. /\ \A r \in wire' : r.tab \in Tabs \ {t} => r \in wire
      /\ \A r \in wire : r.tab \in Tabs \ {t} => r \in wire'
  BY DEF QuietWire
<1> QED
  BY <1>1, <1>2, <1>3, <1>5, <1>6, TabStep

(* No request of the tab is under way, and none leaves. *)
LEMMA SilentWire ==
  ASSUME CommandsInv, NEW t \in Tabs, tab[t].at # "posting", UNCHANGED wire
  PROVE  QuietWire(t)
BY TabFacts DEF CommandsInv, TabsOK, PostOK, QuietWire

(* The tab sends the request of a command. *)
LEMMA PostStep ==
  ASSUME CommandsInv, ServerOK', Later, DeviceOK', NEW t \in Tabs, NEW row,
         NEW c \in Commands, Given(c)',
         tab' = [tab EXCEPT ![t] = row], RowOK(row)',
         tab[t].at # "posting", row.at = "posting", row.cmd = c,
         wire' = wire \cup {[cmd |-> c, tab |-> t, answer |-> "none"]}
  PROVE  CommandsInv'
<1> DEFINE new == [cmd |-> c, tab |-> t, answer |-> "none"]
<1>1. RequestOK(new)'
  BY DEF RequestOK, Request
<1>2. \A r \in wire : RequestOK(r)'
  <2>1. TAKE r \in wire
  <2>2. RequestOK(r)
    BY DEF CommandsInv, TabsOK
  <2> QED
    BY <2>2, RequestLater DEF CommandsInv
<1>3. \A r \in wire : r.tab # t
  BY TabFacts DEF PostOK
<1>4. tab'[t] = row /\ new.tab = t /\ new.cmd = c /\ wire' = wire \cup {new}
  BY TabFacts
<1> HIDE DEF new
<1>5. PostOK(t)'
  BY <1>3, <1>4 DEF PostOK
<1>6. \A r \in wire' : RequestOK(r)'
  BY <1>1, <1>2, <1>4
<1>7. /\ \A r \in wire' : r.tab \in Tabs \ {t} => r \in wire
      /\ \A r \in wire : r.tab \in Tabs \ {t} => r \in wire'
  BY <1>4
<1> QED
  BY <1>5, <1>6, <1>7, TabStep

(* A step that changes neither what is stored nor the outcomes. *)
LEMMA StillDevice ==
  ASSUME CommandsInv, UNCHANGED <<server, made, stored, storedRefs, outcome>>
  PROVE  DeviceOK'
BY StillServer, DeviceLater

-----------------------------------------------------------------------------
(* Part 5.  The actions that leave the server alone.                       *)

LEMMA RefreshedRow ==
  ASSUME CommandsInv, NEW old, RowOK(old)
  PROVE  /\ RowOK(Refreshed(old)) /\ Refreshed(old).open = old.open
         /\ Refreshed(old).at = old.at /\ Refreshed(old).cmd = old.cmd
<1> DEFINE view == [j \in Jobs |-> IF job[j].held THEN job[j].version ELSE 0]
           row == Refreshed(old)
<1>1. old \in TabRow /\ DeviceOK /\ ServerOK
  BY DEF RowOK, CommandsInv
<1>2. view \in [Jobs -> 0..LastVersion+1] /\ \A j \in Jobs : view[j] <= job[j].version
  <2>1. \A j \in Jobs : job[j].version \in 1..LastVersion+1
    BY <1>1 DEF ServerOK
  <2> QED
    BY <2>1, CommandAssumption
<1> HIDE DEF view
<1>3. /\ row \in TabRow /\ row.queue = stored /\ row.refs = storedRefs /\ row.view = view
      /\ row.open = old.open /\ row.at = old.at /\ row.live = old.live /\ row.cmd = old.cmd
      /\ row.rest = old.rest /\ row.base = old.base /\ row.conflict = old.conflict
  BY <1>1, <1>2 DEF Refreshed, TabRow, DeviceOK, view
<1> HIDE DEF row
<1>4. RowOK(row)
  BY <1>1, <1>2, <1>3 DEF RowOK, DeviceOK
<1> QED
  BY <1>3, <1>4 DEF row

LEMMA ClosedRow == ASSUME CommandsInv PROVE RowOK(Closed)
<1>1. <<>> \in Seq(Item) /\ Cmds(<<>>) = {}
  BY EmptySeq DEF Cmds
<1>2. Closed \in TabRow
  BY <1>1, CommandAssumption DEF Closed, TabRow
<1>3. \A j \in Jobs : Closed.view[j] = 0 /\ 0 <= job[j].version
  <2>1. TAKE j \in Jobs
  <2>2. job[j].version \in Nat
    BY ServerFacts DEF CommandsInv
  <2> QED
    BY <2>2 DEF Closed
<1>4. /\ Closed.queue = <<>> /\ Closed.rest = <<>> /\ Closed.refs = {} /\ Closed.base = {}
      /\ Closed.at = "idle" /\ Closed.live = FALSE /\ Closed.conflict = FALSE
  BY DEF Closed
<1>5. AllGiven(Cmds(Closed.queue)) /\ AllGiven(Cmds(Closed.rest))
  BY <1>1, <1>4 DEF AllGiven
<1>6. AllGiven(Closed.refs) /\ AllGiven(Closed.base)
  BY <1>4 DEF AllGiven
<1> QED
  BY <1>2, <1>3, <1>4, <1>5, <1>6 DEF RowOK

LEMMA OpenKeeps ==
  ASSUME CommandsInv, NEW t \in Tabs, Open(t) PROVE CommandsInv'
<1> DEFINE row == [Refreshed(Closed) EXCEPT !.open = TRUE]
<1>1. RowOK(Refreshed(Closed)) /\ Refreshed(Closed).at = "idle"
  BY ClosedRow, RefreshedRow DEF Closed
<1>2. RowOK(row) /\ row.at = "idle"
  <2>1. Refreshed(Closed) \in TabRow
    BY <1>1 DEF RowOK
  <2>2. PICK old : old = Refreshed(Closed)
    OBVIOUS
  <2>3. [old EXCEPT !.open = TRUE] \in TabRow
    BY <2>1, <2>2 DEF TabRow
  <2> QED
    BY <1>1, <2>1, <2>2, <2>3 DEF RowOK, TabRow
<1>3. QuietWire(t) /\ DeviceOK'
  <2>1. tab[t].at # "posting"
    BY TabFacts DEF Open, RowOK
  <2> QED
    BY <2>1, SilentWire, StillDevice DEF Open
<1>4. tab' = [tab EXCEPT ![t] = row] /\ UNCHANGED <<server, made>>
  BY DEF Open
<1> HIDE DEF row
<1> QED
  BY <1>2, <1>3, <1>4, QuietStep

LEMMA RefreshKeeps ==
  ASSUME CommandsInv, NEW t \in Tabs, Refresh(t) PROVE CommandsInv'
<1>1. PICK row : row = Refreshed(tab[t])
  OBVIOUS
<1>2. RowOK(row) /\ row.at = tab[t].at /\ row.cmd = tab[t].cmd
  BY <1>1, TabFacts, RefreshedRow
<1>3. ServerOK' /\ Later /\ DeviceOK'
  BY StillServer, StillDevice DEF Refresh
<1>4. RowOK(row)'
  BY <1>2, <1>3, RowLater DEF CommandsInv
<1>5. tab' = [tab EXCEPT ![t] = row] /\ wire' = wire
  BY <1>1 DEF Refresh
<1>6. PostOK(t)'
  <2>1. tab'[t] = row
    BY <1>5, TabFacts
  <2> QED
    BY <2>1, <1>2, <1>5, TabFacts DEF PostOK
<1>7. \A r \in wire' : RequestOK(r)'
  <2>1. TAKE r \in wire'
  <2>2. RequestOK(r)
    BY <1>5 DEF CommandsInv, TabsOK
  <2> QED
    BY <2>2, <1>3, RequestLater DEF CommandsInv
<1> QED
  BY <1>3, <1>4, <1>5, <1>6, <1>7, TabStep

LEMMA CloseKeeps ==
  ASSUME CommandsInv, NEW t \in Tabs, Close(t) PROVE CommandsInv'
<1> DEFINE Cut(r) == [r EXCEPT !.tab = IF @ = t THEN NoTab ELSE @]
<1>1. \A r \in wire : RequestOK(r) /\ r \in Request
  BY DEF CommandsInv, TabsOK, RequestOK
<1>2. ASSUME NEW r \in wire
      PROVE  /\ Cut(r) \in Request /\ Cut(r).cmd = r.cmd /\ Cut(r).answer = r.answer
             /\ Cut(r).tab = IF r.tab = t THEN NoTab ELSE r.tab
             /\ r.tab # t => Cut(r) = r
  BY <1>1, CommandAssumption DEF Request
<1>3. wire' = {Cut(r) : r \in wire}
  BY DEF Close
<1> HIDE DEF Cut
<1>4. \A r \in wire : RequestOK(Cut(r))
  BY <1>1, <1>2 DEF RequestOK
<1>5. QuietWire(t)
  <2>1. ASSUME NEW r \in wire' PROVE RequestOK(r) /\ r.tab # t /\ (r.tab \in Tabs => r \in wire)
    <3>1. PICK q \in wire : r = Cut(q)
      BY <1>3
    <3> QED
      BY <3>1, <1>2, <1>4, CommandAssumption
  <2>2. \A r \in wire : r.tab # t => r \in wire'
    BY <1>2, <1>3
  <2> QED
    BY <2>1, <2>2 DEF QuietWire
<1>6. DeviceOK' /\ tab' = [tab EXCEPT ![t] = Closed] /\ UNCHANGED <<server, made>>
  BY StillDevice DEF Close
<1>7. RowOK(Closed) /\ Closed.at # "posting"
  BY ClosedRow DEF Closed
<1> QED
  BY <1>5, <1>6, <1>7, QuietStep

LEMMA FlushKeeps ==
  ASSUME CommandsInv, NEW t \in Tabs, Flush(t) PROVE CommandsInv'
<1>1. PICK old : old = tab[t]
  OBVIOUS
<1>2. RowOK(old) /\ old.open /\ old.at = "idle" /\ old \in TabRow
  BY <1>1, TabFacts DEF Flush
<1>3. PICK row : row = [old EXCEPT !.at = "head", !.rest = old.queue]
  OBVIOUS
<1>4. /\ row \in TabRow /\ row.at = "head" /\ row.rest = old.queue /\ row.queue = old.queue
      /\ row.refs = old.refs /\ row.base = old.base /\ row.view = old.view
      /\ row.open = old.open /\ row.live = old.live /\ row.conflict = old.conflict
  BY <1>2, <1>3 DEF TabRow
<1>5. RowOK(row)
  BY <1>2, <1>4 DEF RowOK
<1>6. tab' = [tab EXCEPT ![t] = row]
  BY <1>1, <1>2, <1>3, TabFacts DEF Flush
<1>7. QuietWire(t) /\ DeviceOK' /\ UNCHANGED <<server, made>>
  BY <1>1, <1>2, SilentWire, StillDevice DEF Flush
<1> QED
  BY <1>4, <1>5, <1>6, <1>7, QuietStep

LEMMA FlushHeadKeeps ==
  ASSUME CommandsInv, NEW t \in Tabs, FlushHead(t) PROVE CommandsInv'
<1>1. PICK old : old = tab[t]
  OBVIOUS
<1>2. RowOK(old) /\ old.at = "head" /\ old \in TabRow /\ old.rest \in Seq(Item)
  BY <1>1, TabFacts DEF FlushHead, TabRow
<1>3. DeviceOK' /\ UNCHANGED <<server, made>>
  BY StillDevice DEF FlushHead
<1>4. CASE old.rest = <<>>
  <2>1. PICK row : row = [old EXCEPT !.at = "idle"]
    OBVIOUS
  <2>2. RowOK(row) /\ row.at = "idle"
    BY <1>2, <2>1 DEF RowOK, TabRow
  <2>3. tab' = [tab EXCEPT ![t] = row] /\ QuietWire(t)
    BY <1>1, <1>2, <1>4, <2>1, SilentWire DEF FlushHead
  <2> QED
    BY <1>3, <2>2, <2>3, QuietStep
<1>5. CASE old.rest # <<>>
  <2>1. PICK head : head = old.rest[1]
    OBVIOUS
  <2>2. head \in Item /\ head.cmd \in Commands /\ Given(head.cmd)
    BY <1>2, <1>5, <2>1, HeadItem DEF RowOK, AllGiven, Item
  <2>3. PICK row : row = [old EXCEPT !.at = IF head.uncertain THEN "reading" ELSE "posting",
                                     !.cmd = head.cmd, !.conflict = FALSE]
    OBVIOUS
  <2>4. /\ row \in TabRow /\ row.at = (IF head.uncertain THEN "reading" ELSE "posting")
        /\ row.cmd = head.cmd /\ row.conflict = FALSE /\ row.rest = old.rest
        /\ row.queue = old.queue /\ row.refs = old.refs /\ row.base = old.base
        /\ row.view = old.view /\ row.open = old.open /\ row.live = old.live
    BY <1>2, <2>2, <2>3 DEF TabRow
  <2>5. RowOK(row)
    BY <1>2, <1>5, <2>2, <2>4 DEF RowOK
  <2>6. tab' = [tab EXCEPT ![t] = row]
    BY <1>1, <1>2, <1>5, <2>1, <2>3, TabFacts DEF FlushHead
  <2>7. CASE head.uncertain
    <3>1. QuietWire(t) /\ row.at = "reading"
      BY <1>1, <1>2, <1>5, <2>1, <2>4, <2>7, SilentWire DEF FlushHead
    <3> QED
      BY <1>3, <2>5, <2>6, <3>1, QuietStep
  <2>8. CASE ~head.uncertain
    <3>1. wire' = wire \cup {[cmd |-> head.cmd, tab |-> t, answer |-> "none"]}
      BY <1>1, <1>5, <2>1, <2>8 DEF FlushHead
    <3>2. ServerOK' /\ Later /\ Given(head.cmd)'
      BY <1>3, <2>2, StillServer
    <3>3. RowOK(row)'
      BY <3>2, <2>5, RowLater DEF CommandsInv
    <3> QED
      BY <1>1, <1>2, <1>3, <2>2, <2>4, <2>6, <2>8, <3>1, <3>2, <3>3, PostStep
  <2> QED
    BY <2>7, <2>8
<1> QED
  BY <1>4, <1>5

-----------------------------------------------------------------------------
(* Part 6.  The agent gives a command.                                     *)

LEMMA GivenNow ==
  ASSUME CommandsInv, NEW t \in Tabs, NEW j \in Jobs, NEW c \in Commands,
         NEW live \in BOOLEAN, ReadyForCommand(t, j), ~Given(c),
         made' = [made EXCEPT ![c] = Payload(t, j, live)], UNCHANGED server
  PROVE  ServerOK' /\ Later /\ Given(c)'
<1>1. PICK old : old = tab[t]
  OBVIOUS
<1>2. PICK v : v = old.view[j]
  OBVIOUS
<1>3. v \in 1..LastVersion-1 /\ v <= job[j].version /\ v \in 0..LastVersion
  BY <1>1, <1>2, TabFacts, CommandAssumption DEF ReadyForCommand, RowOK
<1>4. ServerOK /\ job' = job /\ recorded' = recorded /\ recorded[c] = 0
  BY DEF server, CommandsInv, ServerOK, CommandOK
<1>5. PICK payload : payload = [job |-> j, expected |-> v, live |-> live]
  OBVIOUS
<1>6. made' = [made EXCEPT ![c] = payload]
  BY <1>1, <1>2, <1>5 DEF Payload
<1>7. payload \in [job : Jobs \cup {NoCommand}, expected : 0..LastVersion, live : BOOLEAN]
      /\ payload.job = j /\ payload.expected = v /\ j # NoCommand
  BY <1>3, <1>5, CommandAssumption
<1>8. made'[c] = payload /\ \A d \in Commands : d # c => made'[d] = made[d]
  BY <1>4, <1>6 DEF ServerOK
<1>9. /\ made' \in [Commands -> [job : Jobs \cup {NoCommand}, expected : 0..LastVersion,
                                live : BOOLEAN]]
  BY <1>4, <1>6, <1>7 DEF ServerOK
<1>10. Given(c)'
  BY <1>7, <1>8 DEF Given
<1>11. ASSUME NEW d \in Commands PROVE CommandOK(d)'
  <2>1. CASE d = c
    BY <2>1, <1>3, <1>4, <1>7, <1>8, <1>10 DEF CommandOK
  <2>2. CASE d # c
    BY <2>2, <1>4, <1>8 DEF CommandOK, ServerOK, Given
  <2> QED
    BY <2>1, <2>2
<1>12. ServerOK'
  BY <1>4, <1>9, <1>11 DEF ServerOK, JobOK
<1>13. Later
  <2>1. \A d \in Commands : Given(d) => made'[d] = made[d]
    BY <1>8
  <2>2. \A k \in Jobs : job[k].version <= job'[k].version
    <3>1. TAKE k \in Jobs
    <3>2. job[k].version \in Nat /\ job'[k].version = job[k].version
      BY <1>4, ServerFacts
    <3> QED
      BY <3>2
  <2> QED
    BY <2>1, <2>2, <1>4 DEF Later
<1> QED
  BY <1>10, <1>12, <1>13

LEMMA SendEventKeeps ==
  ASSUME CommandsInv, NEW t \in Tabs, NEW j \in Jobs, NEW c \in Commands, SendEvent(t, j, c)
  PROVE  CommandsInv'
<1>1. ServerOK' /\ Later /\ Given(c)'
  BY GivenNow DEF SendEvent
<1>2. PICK old : old = tab[t]
  OBVIOUS
<1>3. /\ RowOK(old)' /\ RowOK(old) /\ old \in TabRow /\ old.at = "idle" /\ old.open
      /\ old.queue \in Seq(Item) /\ ~old.live /\ ~old.conflict
  BY <1>1, <1>2, TabFacts, RowLater DEF CommandsInv, SendEvent, ReadyForCommand, RowOK, TabRow
<1>4. PICK next : next = Append(old.queue, Fresh(c))
  OBVIOUS
<1>5. next \in Seq(Item) /\ AllGiven(Cmds(next))'
  BY <1>1, <1>3, <1>4, AppendCmds DEF RowOK, AllGiven
<1>6. PICK online \in BOOLEAN :
        tab' = [tab EXCEPT ![t].queue = next,
                           ![t].at = IF online THEN "head" ELSE "idle",
                           ![t].rest = IF online THEN next ELSE <<>>]
  BY <1>2, <1>4 DEF SendEvent, Fresh
<1>7. PICK rest : rest = IF online THEN next ELSE <<>>
  OBVIOUS
<1>8. rest \in Seq(Item) /\ AllGiven(Cmds(rest))'
  BY <1>5, <1>7, EmptySeq DEF AllGiven, Cmds
<1>9. PICK row : row = [old EXCEPT !.queue = next, !.rest = rest,
                                   !.at = IF online THEN "head" ELSE "idle"]
  OBVIOUS
<1>10. /\ row \in TabRow /\ row.queue = next /\ row.rest = rest
       /\ row.at \in {"head", "idle"} /\ row.open = old.open
       /\ row.refs = old.refs /\ row.base = old.base /\ row.view = old.view
       /\ row.live = old.live /\ row.conflict = old.conflict
  BY <1>3, <1>5, <1>8, <1>9 DEF TabRow
<1>11. RowOK(row)'
  BY <1>3, <1>5, <1>8, <1>10 DEF RowOK
<1>12. tab' = [tab EXCEPT ![t] = row]
  BY <1>2, <1>3, <1>6, <1>7, <1>9, TabFacts
<1>13. DeviceOK'
  <2>1. stored' = next /\ storedRefs' = storedRefs /\ outcome' = outcome
    BY <1>2, <1>4 DEF SendEvent, Fresh
  <2>2. AllGiven(storedRefs)'
    BY <2>1, <1>1, GivenStays DEF CommandsInv, DeviceOK, AllGiven
  <2>3. \A d \in Commands : OutcomeOK(d)'
    BY <2>1, <1>1, OutcomesLater DEF CommandsInv, DeviceOK
  <2> QED
    BY <2>1, <2>2, <2>3, <1>5 DEF CommandsInv, DeviceOK
<1>14. wire' = wire /\ tab[t].at # "posting"
  BY <1>2, <1>3 DEF SendEvent
<1>15. PostOK(t)'
  <2>1. tab'[t] = row
    BY <1>12, TabFacts
  <2> QED
    BY <2>1, <1>10, <1>14, TabFacts DEF PostOK
<1>16. \A r \in wire' : RequestOK(r)'
  <2>1. TAKE r \in wire'
  <2>2. RequestOK(r)
    BY <1>14 DEF CommandsInv, TabsOK
  <2> QED
    BY <2>2, <1>1, RequestLater DEF CommandsInv
<1> QED
  BY <1>1, <1>11, <1>12, <1>13, <1>14, <1>15, <1>16, TabStep

LEMMA SendLiveEventKeeps ==
  ASSUME CommandsInv, NEW t \in Tabs, NEW j \in Jobs, NEW c \in Commands,
         SendLiveEvent(t, j, c)
  PROVE  CommandsInv'
<1>1. ServerOK' /\ Later /\ Given(c)'
  BY GivenNow DEF SendLiveEvent
<1>2. PICK old : old = tab[t]
  OBVIOUS
<1>3. /\ RowOK(old)' /\ RowOK(old) /\ old \in TabRow /\ old.at = "idle" /\ old.open
      /\ old.refs \subseteq Commands /\ ~old.conflict
  BY <1>1, <1>2, TabFacts, RowLater
     DEF CommandsInv, SendLiveEvent, ReadyForCommand, RowOK, TabRow
<1>4. AllGiven(old.refs \cup {c})'
  BY <1>1, <1>3 DEF RowOK, AllGiven
<1>5. PICK row : row = [old EXCEPT !.refs = old.refs \cup {c}, !.base = old.refs,
                                   !.at = "posting", !.live = TRUE, !.cmd = c]
  OBVIOUS
<1>6. /\ row \in TabRow /\ row.refs = old.refs \cup {c} /\ row.base = old.refs
      /\ row.at = "posting" /\ row.live = TRUE /\ row.cmd = c
      /\ row.queue = old.queue /\ row.rest = old.rest /\ row.view = old.view
      /\ row.open = old.open /\ row.conflict = old.conflict
  BY <1>3, <1>5 DEF TabRow
<1>7. RowOK(row)'
  BY <1>1, <1>3, <1>4, <1>6 DEF RowOK
<1>8. tab' = [tab EXCEPT ![t] = row]
  BY <1>2, <1>3, <1>5, TabFacts DEF SendLiveEvent
<1>9. DeviceOK'
  <2>1. stored' = stored /\ storedRefs' = old.refs \cup {c} /\ outcome' = outcome
    BY <1>2 DEF SendLiveEvent
  <2>2. AllGiven(Cmds(stored))'
    BY <2>1, <1>1, GivenStays, CmdsAreCommands DEF CommandsInv, DeviceOK, AllGiven
  <2>3. \A d \in Commands : OutcomeOK(d)'
    BY <2>1, <1>1, OutcomesLater DEF CommandsInv, DeviceOK
  <2> QED
    BY <2>1, <2>2, <2>3, <1>3, <1>4 DEF CommandsInv, DeviceOK
<1>10. wire' = wire \cup {[cmd |-> c, tab |-> t, answer |-> "none"]}
  BY DEF SendLiveEvent
<1> QED
  BY <1>1, <1>2, <1>3, <1>6, <1>7, <1>8, <1>9, <1>10, PostStep

-----------------------------------------------------------------------------
(* Part 7.  The tab learns of an outcome, or does not.                     *)

(* A tab that posts or reads, with the view it has or the one a result     *)
(* gives it.                                                               *)
LEMMA DoneKeeps ==
  ASSUME CommandsInv, NEW t \in Tabs, NEW next, NEW what,
         tab[t].at \in {"posting", "reading"},
         next = tab[t] \/ (recorded[tab[t].cmd] # 0
                           /\ next = Applied(tab[t], tab[t].cmd, recorded[tab[t].cmd])),
         what \in {"confirmed", "refused", "conflict"},
         what = "confirmed" => recorded[tab[t].cmd] # 0,
         what = "conflict" => Void(tab[t].cmd),
         Done(t, next, what), UNCHANGED <<server, made>>, QuietWire(t)
  PROVE  CommandsInv'
<1>1. PICK old : old = tab[t]
  OBVIOUS
<1>2. PICK c : c = old.cmd
  OBVIOUS
<1>3. /\ RowOK(old) /\ old \in TabRow /\ c \in Commands /\ Given(c)
      /\ old.live \/ (old.rest \in Seq(Item) /\ old.rest # <<>>)
      /\ old.live \in BOOLEAN /\ old.open
  BY <1>1, <1>2, TabFacts DEF RowOK, TabRow
<1>4. \E view \in [Jobs -> 0..LastVersion+1] :
        next = [old EXCEPT !.view = view] /\ \A j \in Jobs : view[j] <= job[j].version
  <2>1. CASE next = old
    <3>1. old.view \in [Jobs -> 0..LastVersion+1] /\ old = [old EXCEPT !.view = old.view]
      BY <1>3 DEF TabRow
    <3> QED
      BY <3>1, <2>1, <1>3 DEF RowOK
  <2>2. CASE recorded[c] # 0 /\ next = Applied(old, c, recorded[c])
    <3>1. PICK j : j = made[c].job
      OBVIOUS
    <3>2. PICK v : v = recorded[c]
      OBVIOUS
    <3>3. j \in Jobs /\ v \in 0..LastVersion+1 /\ v <= job[j].version
      BY <2>2, <3>1, <3>2, <1>3, ServerFacts, CommandAssumption
         DEF CommandsInv, ServerOK, CommandOK
    <3>4. PICK view : view = [old.view EXCEPT ![j] = v]
      OBVIOUS
    <3>5. view \in [Jobs -> 0..LastVersion+1] /\ \A k \in Jobs : view[k] <= job[k].version
      BY <3>3, <3>4, <1>3 DEF TabRow, RowOK
    <3>6. next = [old EXCEPT !.view = view]
      BY <2>2, <3>1, <3>2, <3>4, <1>3 DEF Applied, TabRow
    <3> QED
      BY <3>5, <3>6
  <2> QED
    BY <2>1, <2>2, <1>1, <1>2
<1>5. PICK view \in [Jobs -> 0..LastVersion+1] :
        next = [old EXCEPT !.view = view] /\ \A j \in Jobs : view[j] <= job[j].version
  BY <1>4
<1>6. PICK me : me = [next EXCEPT !.cmd = NoCommand, !.conflict = FALSE, !.live = FALSE]
  OBVIOUS
<1>7. /\ me \in TabRow /\ me.view = view /\ me.cmd = NoCommand /\ me.conflict = FALSE
      /\ me.live = FALSE /\ me.queue = old.queue /\ me.rest = old.rest /\ me.open = old.open
      /\ me.refs = old.refs /\ me.base = old.base
  BY <1>3, <1>5, <1>6 DEF TabRow
<1>8. outcome' = [outcome EXCEPT ![c] = what] /\ ServerOK' /\ Later
      /\ \A d \in Commands : (Given(d)' <=> Given(d)) /\ (Void(d)' <=> Void(d))
  BY <1>1, <1>2, StillServer DEF Done, Told
<1>9. /\ outcome' \in [Commands -> {"none", "confirmed", "conflict", "refused"}]
      /\ \A d \in Commands : OutcomeOK(d)'
  <2>1. /\ outcome' \in [Commands -> {"none", "confirmed", "conflict", "refused"}]
        /\ outcome'[c] = what /\ \A d \in Commands : d # c => outcome'[d] = outcome[d]
    BY <1>3, <1>8 DEF CommandsInv, DeviceOK
  <2>2. recorded' = recorded
    BY DEF server
  <2>3. ASSUME NEW d \in Commands PROVE OutcomeOK(d)'
    <3>1. CASE d = c
      BY <3>1, <2>1, <2>2, <1>1, <1>2, <1>3, <1>8 DEF OutcomeOK
    <3>2. CASE d # c
      BY <3>2, <2>1, <1>8, OutcomesLater DEF CommandsInv, DeviceOK
    <3> QED
      BY <3>1, <3>2
  <2> QED
    BY <2>1, <2>3
<1>10. CASE old.live
  <2>1. PICK left : left = old.base \ {c}
    OBVIOUS
  <2>2. left \subseteq Commands /\ AllGiven(left)
    BY <2>1, <1>3 DEF TabRow, RowOK, AllGiven
  <2>3. PICK row : row = [me EXCEPT !.at = "idle", !.base = {}, !.refs = left]
    OBVIOUS
  <2>4. /\ row \in TabRow /\ row.at = "idle" /\ row.base = {} /\ row.refs = left
        /\ row.view = view /\ row.conflict = FALSE /\ row.live = FALSE
        /\ row.queue = old.queue /\ row.rest = old.rest
    BY <2>2, <2>3, <1>7 DEF TabRow
  <2>5. RowOK(row)
    BY <2>2, <2>4, <1>3, <1>5 DEF RowOK, AllGiven
  <2>6. tab' = [tab EXCEPT ![t] = row] /\ storedRefs' = left /\ stored' = stored
    BY <2>1, <2>3, <1>1, <1>2, <1>6, <1>10 DEF Done
  <2>7. DeviceOK'
    <3>1. AllGiven(Cmds(stored))' /\ AllGiven(left)'
      BY <2>2, <2>6, <1>8, CmdsAreCommands DEF CommandsInv, DeviceOK, AllGiven
    <3> QED
      BY <3>1, <2>2, <2>6, <1>9 DEF CommandsInv, DeviceOK
  <2> QED
    BY <2>4, <2>5, <2>6, <2>7, QuietStep
<1>11. CASE ~old.live
  <2>1. PICK rest : rest = Tail(old.rest)
    OBVIOUS
  <2>2. rest \in Seq(Item) /\ AllGiven(Cmds(rest)) /\ Cmds(rest) \subseteq Commands
    BY <2>1, <1>3, <1>11, TailCmds, CmdsAreCommands DEF RowOK, AllGiven
  <2>3. PICK row : row = [me EXCEPT !.queue = rest, !.rest = rest,
                                    !.at = IF what = "confirmed" THEN "head" ELSE "idle"]
    OBVIOUS
  <2>4. /\ row \in TabRow /\ row.at \in {"head", "idle"} /\ row.queue = rest
        /\ row.rest = rest /\ row.view = view /\ row.conflict = FALSE /\ row.live = FALSE
        /\ row.refs = old.refs /\ row.base = old.base /\ row.open = old.open
    BY <2>2, <2>3, <1>7 DEF TabRow
  <2>5. RowOK(row)
    BY <2>2, <2>4, <1>3, <1>5 DEF RowOK
  <2>6. tab' = [tab EXCEPT ![t] = row] /\ stored' = rest /\ storedRefs' = storedRefs
    BY <2>1, <2>3, <1>1, <1>2, <1>6, <1>11 DEF Done
  <2>7. DeviceOK'
    <3>1. AllGiven(Cmds(rest))' /\ AllGiven(storedRefs)'
      BY <2>2, <2>6, <1>8 DEF CommandsInv, DeviceOK, AllGiven
    <3> QED
      BY <3>1, <2>2, <2>6, <1>9 DEF CommandsInv, DeviceOK
  <2> QED
    BY <2>4, <2>5, <2>6, <2>7, QuietStep
<1> QED
  BY <1>3, <1>10, <1>11

LEMMA UncertainKeeps ==
  ASSUME CommandsInv, NEW t \in Tabs, NEW conflict \in BOOLEAN, tab[t].at = "posting",
         conflict => Void(tab[t].cmd),
         Uncertain(t, conflict), UNCHANGED <<server, made>>, QuietWire(t)
  PROVE  CommandsInv'
<1>1. PICK old : old = tab[t]
  OBVIOUS
<1>2. /\ RowOK(old) /\ old \in TabRow /\ old.at = "posting" /\ old.open
      /\ old.cmd \in Commands /\ Given(old.cmd) /\ (old.live \/ old.rest # <<>>)
      /\ old.rest \in Seq(Item) /\ (conflict => Void(old.cmd))
  BY <1>1, TabFacts DEF RowOK, TabRow
<1>3. CASE old.live
  <2>1. PICK row : row = [old EXCEPT !.at = "reading", !.conflict = conflict]
    OBVIOUS
  <2>2. /\ row \in TabRow /\ row.at = "reading" /\ row.conflict = conflict
        /\ row.queue = old.queue /\ row.rest = old.rest /\ row.refs = old.refs
        /\ row.base = old.base /\ row.view = old.view /\ row.cmd = old.cmd
        /\ row.live = old.live /\ row.open = old.open
    BY <1>2, <2>1 DEF TabRow
  <2>3. RowOK(row)
    BY <1>2, <1>3, <2>2 DEF RowOK
  <2>4. tab' = [tab EXCEPT ![t] = row] /\ DeviceOK'
    BY <1>1, <1>2, <1>3, <2>1, TabFacts, StillDevice DEF Uncertain
  <2> QED
    BY <2>2, <2>3, <2>4, QuietStep
<1>4. CASE ~old.live
  <2>1. PICK marked : marked = Marked(old.rest)
    OBVIOUS
  <2>2. /\ marked \in Seq(Item) /\ marked # <<>> /\ AllGiven(Cmds(marked))
        /\ Cmds(marked) \subseteq Commands
    BY <1>2, <1>4, <2>1, MarkedCmds, CmdsAreCommands DEF RowOK
  <2>3. PICK row : row = [old EXCEPT !.at = "reading", !.conflict = conflict,
                                     !.rest = marked, !.queue = marked]
    OBVIOUS
  <2>4. /\ row \in TabRow /\ row.at = "reading" /\ row.conflict = conflict
        /\ row.queue = marked /\ row.rest = marked /\ row.refs = old.refs
        /\ row.base = old.base /\ row.view = old.view /\ row.cmd = old.cmd
        /\ row.live = old.live /\ row.open = old.open
    BY <1>2, <2>2, <2>3 DEF TabRow
  <2>5. RowOK(row)
    BY <1>2, <2>2, <2>4 DEF RowOK
  <2>6. /\ tab' = [tab EXCEPT ![t].at = "reading", ![t].conflict = conflict,
                              ![t].rest = marked, ![t].queue = marked]
        /\ stored' = marked /\ UNCHANGED <<storedRefs, outcome>>
    BY <1>1, <1>4, <2>1 DEF Uncertain, Marked
  <2>7. tab' = [tab EXCEPT ![t] = row]
    BY <1>1, <1>2, <2>3, <2>6, TabFacts
  <2>8. DeviceOK'
    <3>1. ServerOK' /\ Later
      BY StillServer
    <3>2. AllGiven(Cmds(marked))' /\ AllGiven(storedRefs)'
      BY <2>2, <2>6, <3>1, GivenStays DEF CommandsInv, DeviceOK, AllGiven
    <3>3. \A c \in Commands : OutcomeOK(c)'
      BY <2>6, <3>1, OutcomesLater DEF CommandsInv, DeviceOK
    <3> QED
      BY <2>2, <2>6, <3>2, <3>3 DEF CommandsInv, DeviceOK
  <2> QED
    BY <2>4, <2>5, <2>7, <2>8, QuietStep
<1> QED
  BY <1>3, <1>4

LEMMA ReceiveKeeps ==
  ASSUME CommandsInv, NEW t \in Tabs, NEW r \in wire, Receive(t, r) PROVE CommandsInv'
<1>1. /\ r.tab = t /\ tab[t].at = "posting" /\ tab[t].cmd = r.cmd /\ wire' = wire \ {r}
      /\ UNCHANGED <<server, made>>
  BY DEF Receive
<1>2. QuietWire(t)
  <2>1. \A s \in wire : RequestOK(s) /\ (s.tab = t => s = r)
    BY <1>1, TabFacts DEF CommandsInv, TabsOK, PostOK
  <2> QED
    BY <1>1, <2>1 DEF QuietWire
<1>3. RequestOK(r)
  BY DEF CommandsInv, TabsOK
<1>4. CASE r.answer = "committed" /\ Confirm(t, recorded[r.cmd])
  <2>1. recorded[tab[t].cmd] # 0
    BY <1>1, <1>3, <1>4 DEF RequestOK
  <2>2. PICK next : next = Applied(tab[t], tab[t].cmd, recorded[tab[t].cmd])
    OBVIOUS
  <2>3. Done(t, next, "confirmed")
    BY <1>1, <1>4, <2>2 DEF Confirm
  <2> QED
    BY <1>1, <1>2, <2>1, <2>2, <2>3, DoneKeeps
<1>5. CASE r.answer = "refused" /\ Done(t, tab[t], "refused")
  BY <1>1, <1>2, <1>5, DoneKeeps
<1>6. CASE r.answer = "conflict" /\ Uncertain(t, TRUE)
  <2>1. Void(tab[t].cmd)
    BY <1>1, <1>3, <1>6 DEF RequestOK
  <2> QED
    BY <1>1, <1>2, <1>6, <2>1, UncertainKeeps
<1>7. CASE r.answer = "failed" /\ Uncertain(t, FALSE)
  BY <1>1, <1>2, <1>7, UncertainKeeps
<1> QED
  BY <1>4, <1>5, <1>6, <1>7 DEF Receive

LEMMA GiveUpKeeps ==
  ASSUME CommandsInv, NEW t \in Tabs, NEW r \in wire, GiveUp(t, r) PROVE CommandsInv'
<1>1. PICK lost : lost = [r EXCEPT !.tab = NoTab]
  OBVIOUS
<1>2. RequestOK(r) /\ r \in Request
  BY DEF CommandsInv, TabsOK, RequestOK
<1>3. lost \in Request /\ lost.tab = NoTab /\ lost.cmd = r.cmd /\ lost.answer = r.answer
  BY <1>1, <1>2 DEF Request
<1>4. RequestOK(lost)
  BY <1>2, <1>3 DEF RequestOK
<1>5. wire' = (wire \ {r}) \cup (IF r.answer = "none" THEN {lost} ELSE {})
  BY <1>1 DEF GiveUp
<1>6. \A s \in wire : RequestOK(s) /\ (s.tab = t => s = r)
  BY TabFacts DEF CommandsInv, TabsOK, PostOK, GiveUp
<1>7. QuietWire(t)
  <2>1. r.tab = t /\ NoTab \notin Tabs
    BY CommandAssumption DEF GiveUp
  <2> QED
    BY <2>1, <1>3, <1>4, <1>5, <1>6 DEF QuietWire
<1> QED
  BY <1>7, UncertainKeeps DEF GiveUp

LEMMA ReadNothingKeeps ==
  ASSUME CommandsInv, NEW t \in Tabs, tab[t].at = "reading", ReadNothing(t),
         UNCHANGED <<server, made, wire>>
  PROVE  CommandsInv'
<1>1. QuietWire(t)
  BY SilentWire
<1>2. CASE tab[t].conflict
  <2>1. Void(tab[t].cmd)
    BY <1>2, TabFacts DEF RowOK
  <2>2. Done(t, tab[t], "conflict")
    BY <1>2 DEF ReadNothing
  <2> QED
    BY <1>1, <2>1, <2>2, DoneKeeps
<1>3. CASE ~tab[t].conflict
  <2>1. PICK old : old = tab[t]
    OBVIOUS
  <2>2. RowOK(old) /\ old \in TabRow
    BY <2>1, TabFacts
  <2>3. PICK row : row = [old EXCEPT !.at = "idle", !.cmd = NoCommand, !.live = FALSE,
                                     !.base = {}, !.rest = <<>>]
    OBVIOUS
  <2>4. <<>> \in Seq(Item) /\ Cmds(<<>>) = {}
    BY EmptySeq DEF Cmds
  <2>5. /\ row \in TabRow /\ row.at = "idle" /\ row.live = FALSE /\ row.base = {}
        /\ row.rest = <<>> /\ row.queue = old.queue /\ row.refs = old.refs
        /\ row.view = old.view /\ row.conflict = old.conflict /\ ~row.conflict
    BY <1>3, <2>1, <2>2, <2>3, <2>4 DEF TabRow
  <2>6. RowOK(row)
    BY <2>2, <2>4, <2>5 DEF RowOK, AllGiven
  <2>7. tab' = [tab EXCEPT ![t] = row] /\ DeviceOK'
    BY <1>3, <2>1, <2>2, <2>3, TabFacts, StillDevice DEF ReadNothing
  <2> QED
    BY <1>1, <2>5, <2>6, <2>7, QuietStep
<1> QED
  BY <1>2, <1>3

LEMMA ReadResultKeeps ==
  ASSUME CommandsInv, NEW t \in Tabs, ReadResult(t) PROVE CommandsInv'
<1>1. tab[t].at = "reading" /\ UNCHANGED <<server, made, wire>>
  BY DEF ReadResult
<1>2. CASE Found(tab[t].cmd)
  <2>1. PICK next : next = Applied(tab[t], tab[t].cmd, recorded[tab[t].cmd])
    OBVIOUS
  <2>2. Done(t, next, "confirmed") /\ recorded[tab[t].cmd] # 0
    BY <1>2, <2>1 DEF ReadResult, Confirm, Found
  <2>3. QuietWire(t)
    BY <1>1, SilentWire
  <2> QED
    BY <1>1, <2>1, <2>2, <2>3, DoneKeeps
<1>3. CASE ~Found(tab[t].cmd)
  BY <1>1, <1>3, ReadNothingKeeps DEF ReadResult
<1> QED
  BY <1>2, <1>3

LEMMA ReadFailsKeeps ==
  ASSUME CommandsInv, NEW t \in Tabs, ReadFails(t) PROVE CommandsInv'
BY ReadNothingKeeps DEF ReadFails

LEMMA ReconcilePendingKeeps ==
  ASSUME CommandsInv, NEW t \in Tabs, NEW c \in Commands, ReconcilePending(t, c)
  PROVE  CommandsInv'
<1>1. PICK old : old = tab[t]
  OBVIOUS
<1>2. PICK v : v = recorded[c]
  OBVIOUS
<1>3. PICK j : j = made[c].job
  OBVIOUS
<1>4. /\ RowOK(old) /\ old \in TabRow /\ old.at = "idle" /\ c \in old.refs /\ v # 0
      /\ Given(c)
  BY <1>1, <1>2, TabFacts DEF ReconcilePending, Found, RowOK, AllGiven
<1>5. j \in Jobs /\ v \in 0..LastVersion+1 /\ v <= job[j].version
  BY <1>2, <1>3, <1>4, ServerFacts, CommandAssumption DEF CommandsInv, ServerOK, CommandOK
<1>6. PICK view : view = [old.view EXCEPT ![j] = v]
  OBVIOUS
<1>7. view \in [Jobs -> 0..LastVersion+1] /\ \A k \in Jobs : view[k] <= job[k].version
  BY <1>4, <1>5, <1>6 DEF TabRow, RowOK
<1>8. PICK left : left = old.refs \ {c}
  OBVIOUS
<1>9. left \subseteq Commands /\ AllGiven(left)
  BY <1>4, <1>8 DEF TabRow, RowOK, AllGiven
<1>10. PICK row : row = [old EXCEPT !.view = view, !.refs = left]
  OBVIOUS
<1>11. /\ row \in TabRow /\ row.at = "idle" /\ row.view = view /\ row.refs = left
       /\ row.queue = old.queue /\ row.rest = old.rest /\ row.base = old.base
       /\ row.live = old.live /\ row.conflict = old.conflict
  BY <1>4, <1>7, <1>9, <1>10 DEF TabRow
<1>12. RowOK(row)
  BY <1>4, <1>7, <1>9, <1>11 DEF RowOK
<1>13. /\ tab' = [tab EXCEPT ![t] = row] /\ storedRefs' = left /\ stored' = stored
       /\ outcome' = [outcome EXCEPT ![c] = "confirmed"]
       /\ UNCHANGED <<server, made, wire>>
  <2>1. [Applied(old, c, v) EXCEPT !.refs = @ \ {c}] = row
    BY <1>3, <1>4, <1>6, <1>8, <1>10 DEF Applied, TabRow
  <2> QED
    BY <2>1, <1>1, <1>2, <1>8 DEF ReconcilePending, Told
<1>14. QuietWire(t)
  BY <1>1, <1>4, <1>13, SilentWire
<1>15. DeviceOK'
  <2>1. ServerOK' /\ Later
    BY <1>13, StillServer
  <2>2. AllGiven(Cmds(stored))' /\ AllGiven(left)'
    BY <1>9, <1>13, <2>1, GivenStays, CmdsAreCommands DEF CommandsInv, DeviceOK, AllGiven
  <2>3. /\ outcome' \in [Commands -> {"none", "confirmed", "conflict", "refused"}]
        /\ outcome'[c] = "confirmed" /\ \A d \in Commands : d # c => outcome'[d] = outcome[d]
    BY <1>13 DEF CommandsInv, DeviceOK
  <2>4. recorded'[c] # 0
    BY <1>2, <1>4, <1>13 DEF server
  <2>5. ASSUME NEW d \in Commands PROVE OutcomeOK(d)'
    <3>1. CASE d = c
      BY <3>1, <2>3, <2>4 DEF OutcomeOK
    <3>2. CASE d # c
      BY <3>2, <2>1, <2>3, OutcomesLater DEF CommandsInv, DeviceOK
    <3> QED
      BY <3>1, <3>2
  <2> QED
    BY <1>9, <1>13, <2>2, <2>3, <2>5 DEF CommandsInv, DeviceOK
<1> QED
  BY <1>11, <1>12, <1>13, <1>14, <1>15, QuietStep

-----------------------------------------------------------------------------
(* Part 8.  The server and the wire.                                       *)

(* A step of the server leaves every tab as it is; the wire may lose a     *)
(* request or answer it.                                                   *)
LEMMA ServerStep ==
  ASSUME CommandsInv, ServerOK', Later, UNCHANGED <<stored, storedRefs, tab, outcome>>,
         \A t \in Tabs : PostOK(t)', \A r \in wire' : RequestOK(r)'
  PROVE  CommandsInv'
<1>1. DeviceOK'
  BY DeviceLater
<1>2. ASSUME NEW t \in Tabs PROVE RowOK(tab[t])'
  <2>1. PICK old : old = tab[t]
    OBVIOUS
  <2>2. RowOK(old)
    BY <2>1, TabFacts
  <2>3. RowOK(old)'
    BY <2>2, RowLater DEF CommandsInv
  <2>4. tab'[t] = old
    BY <2>1
  <2> QED
    BY <2>3, <2>4
<1>3. TabsOK'
  BY <1>2 DEF CommandsInv, TabsOK
<1> QED
  BY <1>1, <1>3 DEF CommandsInv

LEMMA AnswerKeeps ==
  ASSUME CommandsInv, ServerOK', Later, UNCHANGED <<stored, storedRefs, tab, outcome>>,
         NEW r \in wire, NEW what \in {"committed", "conflict", "refused", "failed"},
         Answer(r, what),
         what = "committed" => recorded'[r.cmd] # 0,
         what = "conflict" => Void(r.cmd)'
  PROVE  CommandsInv'
<1>1. PICK back : back = [r EXCEPT !.answer = what]
  OBVIOUS
<1>2. \A s \in wire : RequestOK(s)' /\ s \in Request
  <2>1. TAKE s \in wire
  <2>2. RequestOK(s)
    BY DEF CommandsInv, TabsOK
  <2> QED
    BY <2>2, RequestLater DEF CommandsInv, RequestOK
<1>3. /\ back \in Request /\ back.cmd = r.cmd /\ back.tab = r.tab /\ back.answer = what
  BY <1>1, <1>2 DEF Request
<1>4. RequestOK(back)'
  BY <1>2, <1>3 DEF RequestOK
<1>5. wire' = (wire \ {r}) \cup (IF r.tab = NoTab THEN {} ELSE {back})
  BY <1>1 DEF Answer
<1>6. \A s \in wire' : RequestOK(s)'
  BY <1>2, <1>4, <1>5
<1>7. ASSUME NEW t \in Tabs PROVE PostOK(t)'
  <2>1. PostOK(t) /\ NoTab \notin Tabs
    BY TabFacts, CommandAssumption
  <2> QED
    BY <2>1, <1>3, <1>5 DEF PostOK
<1> QED
  BY <1>6, <1>7, ServerStep

LEMMA HandleKeeps ==
  ASSUME CommandsInv, NEW r \in wire, Handle(r) PROVE CommandsInv'
<1>1. PICK c : c = r.cmd
  OBVIOUS
<1>2. PICK j : j = made[c].job
  OBVIOUS
<1>3. RequestOK(r) /\ ServerOK
  BY DEF CommandsInv, TabsOK
<1>4. c \in Commands /\ Given(c) /\ j \in Jobs
  BY <1>1, <1>2, <1>3, ServerFacts DEF RequestOK, Request
<1>5. CASE ~Replayed(c) /\ Acceptable(c)
  <2>1. PICK v : v = job[j].version
    OBVIOUS
  <2>2. /\ recorded[c] = 0 /\ job[j].held /\ v = made[c].expected
        /\ v \in 1..LastVersion-1 /\ v \in Nat
    BY <1>2, <1>3, <1>4, <1>5, <2>1, CommandAssumption
       DEF Replayed, Acceptable, ServerOK, CommandOK
  <2>3. PICK row : row = [version |-> v + 1, held |-> (v + 1 < LastVersion)]
    OBVIOUS
  <2>4. /\ row \in [version : 1..LastVersion+1, held : BOOLEAN]
        /\ row.version = v + 1 /\ v + 1 \in 0..LastVersion
        /\ row.held => v + 1 < LastVersion
    <3>1. v + 1 \in 1..LastVersion+1 /\ v + 1 \in 0..LastVersion
      BY <2>2, CommandAssumption
    <3>2. (v + 1 < LastVersion) \in BOOLEAN
      OBVIOUS
    <3>3. row.version = v + 1 /\ row.held = (v + 1 < LastVersion)
      BY <2>3
    <3>4. row \in [version : 1..LastVersion+1, held : BOOLEAN]
      BY <3>1, <3>2, <2>3
    <3> QED
      BY <3>1, <3>3, <3>4
  <2>5. /\ job' = [job EXCEPT ![j] = row] /\ recorded' = [recorded EXCEPT ![c] = v + 1]
        /\ made' = made
    <3>1. Advanced(job[j]) = row
      BY <1>3, <1>4, <2>1, <2>3, <2>4 DEF Advanced, ServerOK
    <3> QED
      BY <3>1, <1>1, <1>2, <1>4, <1>5, <2>1 DEF Handle
  <2>6. /\ job' \in [Jobs -> [version : 1..LastVersion+1, held : BOOLEAN]]
        /\ job'[j] = row /\ \A k \in Jobs : k # j => job'[k] = job[k]
        /\ recorded' \in [Commands -> 0..LastVersion]
        /\ recorded'[c] = v + 1 /\ \A d \in Commands : d # c => recorded'[d] = recorded[d]
    BY <1>3, <1>4, <2>4, <2>5 DEF ServerOK
  <2>7. ASSUME NEW k \in Jobs
        PROVE  /\ job[k].version <= job'[k].version /\ (job'[k].held => job[k].held)
               /\ job[k].version \in Nat /\ job'[k].version \in Nat
    <3>1. job[k].version \in Nat
      BY <1>3, ServerFacts
    <3>2. CASE k = j
      BY <3>1, <3>2, <2>1, <2>2, <2>4, <2>6
    <3>3. CASE k # j
      BY <3>1, <3>3, <2>6
    <3> QED
      BY <3>2, <3>3
  <2>8. ASSUME NEW d \in Commands PROVE CommandOK(d)'
    <3>1. CASE d = c
      <4>1. Given(c)' /\ made'[c] = made[c] /\ made'[c].job = j
        BY <1>2, <1>4, <2>5 DEF Given
      <4> QED
        BY <3>1, <4>1, <2>2, <2>4, <2>6, CommandAssumption DEF CommandOK
    <3>2. CASE d # c
      <4>1. /\ CommandOK(d) /\ (Given(d)' <=> Given(d)) /\ made'[d] = made[d]
            /\ recorded'[d] = recorded[d]
        BY <1>3, <2>5, <2>6, <3>2 DEF ServerOK, Given
      <4>2. CASE Given(d)
        <5>1. PICK k \in Jobs : k = made[d].job
          BY <4>2, <1>3, ServerFacts
        <5>2. job[k].version <= job'[k].version /\ job[k].version \in Nat
              /\ job'[k].version \in Nat
          BY <2>7
        <5>3. made[d].expected \in Nat /\ recorded[d] \in Nat
          BY <1>3, ServerFacts
        <5> QED
          BY <4>1, <4>2, <5>1, <5>2, <5>3 DEF CommandOK
      <4>3. CASE ~Given(d)
        BY <4>1, <4>3 DEF CommandOK
      <4> QED
        BY <4>2, <4>3
    <3> QED
      BY <3>1, <3>2
  <2>9. ServerOK'
    <3>1. \A k \in Jobs : JobOK(k)'
      BY <1>3, <2>4, <2>6 DEF ServerOK, JobOK
    <3> QED
      BY <3>1, <1>3, <2>5, <2>6, <2>8 DEF ServerOK
  <2>10. Later
    BY <1>5, <2>2, <2>5, <2>6, <2>7 DEF Later, Replayed
  <2>11. Answer(r, "committed") /\ UNCHANGED <<stored, storedRefs, tab, outcome>>
    BY <1>1, <1>5 DEF Handle
  <2>12. recorded'[r.cmd] # 0
    BY <1>1, <2>2, <2>6
  <2> QED
    BY <2>9, <2>10, <2>11, <2>12, AnswerKeeps
<1>6. CASE ~(~Replayed(c) /\ Acceptable(c))
  <2>1. UNCHANGED <<server, made, stored, storedRefs, tab, outcome>>
    BY <1>1, <1>6 DEF Handle
  <2>2. ServerOK' /\ Later /\ (Void(c)' <=> Void(c)) /\ recorded' = recorded
    BY <1>4, <2>1, StillServer DEF server
  <2>3. CASE Replayed(c)
    <3>1. Answer(r, "committed")
      BY <1>1, <2>3 DEF Handle
    <3> QED
      BY <1>1, <2>1, <2>2, <2>3, <3>1, AnswerKeeps DEF Replayed
  <2>4. CASE ~Replayed(c)
    <3>1. Answer(r, "conflict")
      BY <1>1, <1>6, <2>4 DEF Handle
    <3>2. Void(c)
      <4>1. ~Acceptable(c) /\ recorded[c] = 0
        BY <1>6, <2>4 DEF Replayed
      <4>2. job[j].version \in Nat /\ made[c].expected \in Nat
            /\ made[c].expected <= job[j].version
        BY <1>2, <1>3, <1>4, ServerFacts DEF ServerOK, CommandOK
      <4> QED
        BY <1>2, <1>4, <4>1, <4>2 DEF Void, Acceptable
    <3> QED
      BY <1>1, <2>1, <2>2, <3>1, <3>2, AnswerKeeps
  <2> QED
    BY <2>3, <2>4
<1> QED
  BY <1>5, <1>6

LEMMA RefuseKeeps ==
  ASSUME CommandsInv, NEW r \in wire, Refuse(r) PROVE CommandsInv'
<1>1. Answer(r, "refused") /\ UNCHANGED <<server, made, stored, storedRefs, tab, outcome>>
  BY DEF Refuse
<1> QED
  BY <1>1, StillServer, AnswerKeeps

LEMMA LoseKeeps ==
  ASSUME CommandsInv, NEW r \in wire, Lose(r) PROVE CommandsInv'
<1>1. Answer(r, "failed") /\ UNCHANGED <<server, made, stored, storedRefs, tab, outcome>>
  BY DEF Lose, Answer
<1> QED
  BY <1>1, StillServer, AnswerKeeps

LEMMA WithdrawKeeps ==
  ASSUME CommandsInv, NEW j \in Jobs, Withdraw(j) PROVE CommandsInv'
<1>1. PICK v : v = job[j].version
  OBVIOUS
<1>2. PICK row : row = [version |-> v + 1, held |-> FALSE]
  OBVIOUS
<1>3. ServerOK /\ v \in 1..LastVersion /\ v \in Nat
  BY <1>1, CommandAssumption DEF CommandsInv, ServerOK, JobOK, Withdraw
<1>4. row \in [version : 1..LastVersion+1, held : BOOLEAN] /\ row.version = v + 1 /\ ~row.held
  BY <1>2, <1>3, CommandAssumption
<1>5. /\ job' = [job EXCEPT ![j] = row] /\ UNCHANGED <<recorded, made, wire>>
      /\ UNCHANGED <<stored, storedRefs, tab, outcome>>
  BY <1>1, <1>2 DEF Withdraw
<1>6. /\ job' \in [Jobs -> [version : 1..LastVersion+1, held : BOOLEAN]]
      /\ job'[j] = row /\ \A k \in Jobs : k # j => job'[k] = job[k]
  BY <1>3, <1>4, <1>5 DEF ServerOK
<1>7. ASSUME NEW k \in Jobs
      PROVE  job[k].version <= job'[k].version /\ (job'[k].held => job[k].held)
             /\ job[k].version \in Nat /\ job'[k].version \in Nat
  BY <1>1, <1>3, <1>4, <1>6, ServerFacts
<1>8. ASSUME NEW d \in Commands PROVE CommandOK(d)'
  <2>1. CommandOK(d) /\ (Given(d)' <=> Given(d))
    BY <1>3, <1>5 DEF ServerOK, Given
  <2>2. made[d].expected \in Nat /\ recorded[d] \in Nat /\ (Given(d) => made[d].job \in Jobs)
    BY <1>3, ServerFacts
  <2> QED
    BY <2>1, <2>2, <1>5, <1>7 DEF CommandOK
<1>9. ServerOK'
  <2>1. \A k \in Jobs : JobOK(k)'
    BY <1>3, <1>4, <1>6 DEF ServerOK, JobOK
  <2> QED
    BY <2>1, <1>3, <1>5, <1>6, <1>8 DEF ServerOK
<1>10. Later
  BY <1>5, <1>7 DEF Later
<1>11. \A t \in Tabs : PostOK(t)'
  BY <1>5, TabFacts DEF PostOK
<1>12. \A r \in wire' : RequestOK(r)'
  <2>1. TAKE r \in wire'
  <2>2. RequestOK(r)
    BY <1>5 DEF CommandsInv, TabsOK
  <2> QED
    BY <2>2, <1>3, <1>9, <1>10, RequestLater
<1> QED
  BY <1>5, <1>9, <1>10, <1>11, <1>12, ServerStep

-----------------------------------------------------------------------------
(* Part 9.  The theorems for any number of tabs.                           *)

LEMMA InvNext == CommandsInv /\ [Next]_vars => CommandsInv'
<1> SUFFICES ASSUME CommandsInv, [Next]_vars PROVE CommandsInv'
  OBVIOUS
<1>1. ASSUME UNCHANGED vars PROVE CommandsInv'
  <2>1. /\ UNCHANGED <<server, made>> /\ UNCHANGED <<stored, storedRefs, tab, outcome>>
        /\ wire' = wire
    BY <1>1 DEF vars, server
  <2>2. ServerOK' /\ Later
    BY <2>1, StillServer
  <2>3. \A t \in Tabs : PostOK(t)'
    BY <2>1, TabFacts DEF PostOK
  <2>4. \A r \in wire' : RequestOK(r)'
    <3>1. TAKE r \in wire'
    <3>2. RequestOK(r)
      BY <2>1 DEF CommandsInv, TabsOK
    <3> QED
      BY <3>2, <2>2, RequestLater DEF CommandsInv
  <2> QED
    BY <2>1, <2>2, <2>3, <2>4, ServerStep
<1>2. ASSUME NEW t \in Tabs,
             \/ Open(t) \/ Refresh(t) \/ Close(t) \/ Flush(t) \/ FlushHead(t)
             \/ ReadResult(t) \/ ReadFails(t)
      PROVE  CommandsInv'
  BY <1>2, OpenKeeps, RefreshKeeps, CloseKeeps, FlushKeeps, FlushHeadKeeps,
     ReadResultKeeps, ReadFailsKeeps
<1>3. ASSUME NEW t \in Tabs, NEW j \in Jobs, NEW c \in Commands,
             SendEvent(t, j, c) \/ SendLiveEvent(t, j, c)
      PROVE  CommandsInv'
  BY <1>3, SendEventKeeps, SendLiveEventKeeps
<1>4. ASSUME NEW t \in Tabs, NEW r \in wire, Receive(t, r) \/ GiveUp(t, r)
      PROVE  CommandsInv'
  BY <1>4, ReceiveKeeps, GiveUpKeeps
<1>5. ASSUME NEW t \in Tabs, NEW c \in Commands, ReconcilePending(t, c)
      PROVE  CommandsInv'
  BY <1>5, ReconcilePendingKeeps
<1>6. ASSUME NEW r \in wire, Handle(r) \/ Refuse(r) \/ Lose(r) PROVE CommandsInv'
  BY <1>6, HandleKeeps, RefuseKeeps, LoseKeeps
<1>7. ASSUME NEW j \in Jobs, Withdraw(j) PROVE CommandsInv'
  BY <1>7, WithdrawKeeps
<1> QED
  BY <1>1, <1>2, <1>3, <1>4, <1>5, <1>6, <1>7 DEF Next

LEMMA InvAlways == Spec => []CommandsInv
<1> QED
  BY InvInit, InvNext, PTL DEF Spec

(* The agent's queues, the ledger and the requests are well formed, and a  *)
(* tab waits for a request exactly while one of its own is on the wire.    *)
THEOREM CommandsTypeCorrect == Spec => []CommandsTypeOK
<1>1. CommandsInv => CommandsTypeOK
  <2> SUFFICES ASSUME CommandsInv PROVE CommandsTypeOK
    OBVIOUS
  <2>1. ASSUME NEW t \in Tabs
        PROVE  /\ tab[t].refs \subseteq Commands
               /\ tab[t].cmd \in Commands \cup {NoCommand}
               /\ \A i \in DOMAIN tab[t].queue : tab[t].queue[i] \in Item
               /\ tab[t].at = "posting" <=> \E r \in wire : r.tab = t
    <3>1. /\ tab[t].refs \subseteq Commands /\ tab[t].queue \in Seq(Item)
          /\ tab[t].cmd \in Commands \cup {NoCommand}
      BY TabFacts DEF TabRow
    <3>2. \A i \in DOMAIN tab[t].queue : tab[t].queue[i] \in Item
      BY <3>1, ElementOfSeq, LenProperties
    <3>3. tab[t].at = "posting" <=> \E r \in wire : r.tab = t
      BY TabFacts DEF PostOK
    <3> QED
      BY <3>1, <3>2, <3>3
  <2> QED
    BY <2>1 DEF CommandsTypeOK, CommandsInv, ServerOK, DeviceOK
<1> QED
  BY <1>1, InvAlways, PTL

(* A confirmed command is in the ledger, at the version after the one it   *)
(* was issued for, and one given up as a conflict is never recorded,       *)
(* whichever copy of it arrives when.                                      *)
THEOREM OutcomesStayTrue == Spec => []OutcomesAreTrue
<1>1. CommandsInv => OutcomesAreTrue
  BY DEF CommandsInv, ServerOK, DeviceOK, CommandOK, OutcomeOK, Void, OutcomesAreTrue
<1> QED
  BY <1>1, InvAlways, PTL

-----------------------------------------------------------------------------
(* Part 10.  Retention, on a device with one tab.  A tab persists its own  *)
(* list over whatever is stored, so with two tabs a command may be lost;   *)
(* with one, the tab and the device always hold the same.                  *)

OneTab == \A t, u \in Tabs : t = u

Kept == Cmds(stored) \cup storedRefs

InStep(t) ==
  /\ tab[t].open => tab[t].queue = stored /\ tab[t].refs = storedRefs
  /\ tab[t].at # "idle" /\ ~tab[t].live => tab[t].rest = tab[t].queue
  /\ tab[t].at \in {"posting", "reading"} =>
       IF tab[t].live THEN tab[t].refs = tab[t].base \cup {tab[t].cmd}
                      ELSE tab[t].rest[1].cmd = tab[t].cmd

RetentionInv == RetainedUntilSettled /\ \A t \in Tabs : InStep(t)

LEMMA RetainedMeansKept ==
  RetainedUntilSettled <=> \A c \in Commands : Given(c) /\ outcome[c] = "none" => c \in Kept
BY DEF RetainedUntilSettled, Kept, Cmds

(* Nothing leaves the device without an outcome, and no outcome is undone. *)
LEMMA KeptStep ==
  ASSUME RetainedUntilSettled,
         \A c \in Commands : Given(c)' => Given(c) \/ c \in Kept',
         \A c \in Commands : outcome[c] = "none" \/ outcome'[c] # "none",
         \A c \in Commands : c \in Kept => c \in Kept' \/ outcome'[c] # "none"
  PROVE  RetainedUntilSettled'
<1>1. \A c \in Commands : Given(c)' /\ outcome'[c] = "none" => c \in Kept'
  BY RetainedMeansKept
<1> QED
  BY <1>1 DEF RetainedUntilSettled, Kept, Cmds

LEMMA AllInStep ==
  ASSUME OneTab, NEW t \in Tabs, InStep(t)' PROVE (\A u \in Tabs : InStep(u))'
BY DEF OneTab

LEMMA InStepFacts ==
  ASSUME CommandsInv, RetentionInv, NEW t \in Tabs
  PROVE  /\ InStep(t) /\ RetainedUntilSettled /\ tab[t] \in TabRow /\ RowOK(tab[t])
         /\ tab[t].at # "idle" => tab[t].open
BY TabFacts DEF RetentionInv, RowOK

(* Neither what is stored nor the outcomes change.                         *)
LEMMA NothingLost ==
  ASSUME CommandsInv, RetentionInv, UNCHANGED <<made, stored, storedRefs, outcome>>
  PROVE  RetainedUntilSettled'
BY DEF RetentionInv, RetainedUntilSettled, Given

LEMMA OpenRefreshClose ==
  ASSUME CommandsInv, RetentionInv, NEW t \in Tabs, Open(t) \/ Refresh(t) \/ Close(t)
  PROVE  InStep(t)' /\ RetainedUntilSettled'
<1>1. tab \in [Tabs -> TabRow] /\ tab[t] \in TabRow /\ InStep(t)
      /\ (tab[t].at # "idle" => tab[t].open)
  BY TabFacts, InStepFacts
<1>2. UNCHANGED <<made, stored, storedRefs, outcome>>
  BY DEF Open, Refresh, Close
<1>3. CASE Open(t)
  <2>1. tab'[t] = [Refreshed(Closed) EXCEPT !.open = TRUE]
    BY <1>1, <1>3 DEF Open
  <2>2. /\ tab'[t].queue = stored /\ tab'[t].refs = storedRefs /\ tab'[t].at = "idle"
    BY <2>1 DEF Refreshed, Closed
  <2> QED
    BY <1>2, <2>2, NothingLost DEF InStep
<1>4. CASE Refresh(t)
  <2>1. PICK old : old = tab[t]
    OBVIOUS
  <2>2. tab'[t] = Refreshed(old) /\ old \in TabRow /\ old.open
    BY <1>1, <1>4, <2>1 DEF Refresh
  <2>3. /\ tab'[t].queue = stored /\ tab'[t].refs = storedRefs /\ tab'[t].at = old.at
        /\ tab'[t].live = old.live /\ tab'[t].rest = old.rest /\ tab'[t].base = old.base
        /\ tab'[t].cmd = old.cmd /\ old.queue = stored /\ old.refs = storedRefs
    BY <1>1, <2>1, <2>2 DEF Refreshed, TabRow, InStep
  <2> QED
    BY <1>1, <1>2, <2>1, <2>3, NothingLost DEF InStep
<1>5. CASE Close(t)
  <2>1. tab'[t].open = FALSE /\ tab'[t].at = "idle"
    BY <1>1, <1>5 DEF Close, Closed
  <2> QED
    BY <1>2, <2>1, NothingLost DEF InStep
<1> QED
  BY <1>3, <1>4, <1>5

LEMMA FlushRetains ==
  ASSUME CommandsInv, RetentionInv, NEW t \in Tabs, Flush(t) \/ FlushHead(t)
  PROVE  InStep(t)' /\ RetainedUntilSettled'
<1>1. PICK old : old = tab[t]
  OBVIOUS
<1>2. /\ tab \in [Tabs -> TabRow] /\ old \in TabRow /\ RowOK(old) /\ InStep(t)
      /\ RetainedUntilSettled /\ old.open
  BY <1>1, TabFacts, InStepFacts DEF Flush, FlushHead
<1>3. UNCHANGED <<made, stored, storedRefs, outcome>> /\ RetainedUntilSettled'
  BY NothingLost DEF Flush, FlushHead
<1>4. CASE Flush(t)
  <2>1. tab'[t] = [old EXCEPT !.at = "head", !.rest = old.queue]
    BY <1>1, <1>2, <1>4 DEF Flush
  <2>2. /\ tab'[t].queue = old.queue /\ tab'[t].refs = old.refs /\ tab'[t].at = "head"
        /\ tab'[t].rest = old.queue
    BY <1>2, <2>1 DEF TabRow
  <2> QED
    BY <1>1, <1>2, <1>3, <2>2 DEF InStep
<1>5. CASE FlushHead(t) /\ old.rest = <<>>
  <2>1. tab'[t] = [old EXCEPT !.at = "idle"]
    BY <1>1, <1>2, <1>5 DEF FlushHead
  <2>2. tab'[t].queue = old.queue /\ tab'[t].refs = old.refs /\ tab'[t].at = "idle"
    BY <1>2, <2>1 DEF TabRow
  <2> QED
    BY <1>1, <1>2, <1>3, <2>2 DEF InStep
<1>6. CASE FlushHead(t) /\ old.rest # <<>>
  <2>1. PICK head : head = old.rest[1]
    OBVIOUS
  <2>2. tab'[t] = [old EXCEPT !.at = IF head.uncertain THEN "reading" ELSE "posting",
                              !.cmd = head.cmd, !.conflict = FALSE]
    BY <1>1, <1>2, <1>6, <2>1 DEF FlushHead
  <2>3. /\ tab'[t].queue = old.queue /\ tab'[t].refs = old.refs /\ tab'[t].rest = old.rest
        /\ tab'[t].cmd = head.cmd /\ tab'[t].live = old.live
        /\ old.at = "head" /\ ~old.live
    BY <1>1, <1>2, <1>6, <2>2 DEF TabRow, RowOK, FlushHead
  <2> QED
    BY <1>1, <1>2, <1>3, <2>1, <2>3 DEF InStep
<1> QED
  BY <1>1, <1>4, <1>5, <1>6

LEMMA SendRetains ==
  ASSUME CommandsInv, RetentionInv, NEW t \in Tabs, NEW j \in Jobs, NEW c \in Commands,
         SendEvent(t, j, c) \/ SendLiveEvent(t, j, c)
  PROVE  InStep(t)' /\ RetainedUntilSettled'
<1>1. PICK old : old = tab[t]
  OBVIOUS
<1>2. /\ tab \in [Tabs -> TabRow] /\ old \in TabRow /\ RowOK(old) /\ InStep(t)
      /\ old.queue \in Seq(Item) /\ old.open /\ old.at = "idle" /\ ~old.live
      /\ old.queue = stored /\ old.refs = storedRefs /\ RetainedUntilSettled
  BY <1>1, TabFacts, InStepFacts
     DEF SendEvent, SendLiveEvent, ReadyForCommand, TabRow, RowOK, InStep
<1>3. /\ outcome' = outcome /\ made \in [Commands -> [job : Jobs \cup {NoCommand},
                                 expected : 0..LastVersion, live : BOOLEAN]]
      /\ \A d \in Commands : d # c => made'[d] = made[d]
  BY DEF SendEvent, SendLiveEvent, CommandsInv, ServerOK
<1>4. \A d \in Commands : Given(d)' => Given(d) \/ d = c
  BY <1>3 DEF Given
<1>5. CASE SendEvent(t, j, c)
  <2>1. PICK next : next = Append(old.queue, Fresh(c))
    OBVIOUS
  <2>2. PICK online \in BOOLEAN :
          tab' = [tab EXCEPT ![t].queue = next,
                             ![t].at = IF online THEN "head" ELSE "idle",
                             ![t].rest = IF online THEN next ELSE <<>>]
    BY <1>1, <1>5, <2>1 DEF SendEvent, Fresh
  <2>3. stored' = next /\ storedRefs' = storedRefs
    BY <1>1, <1>5, <2>1 DEF SendEvent, Fresh
  <2>4. /\ tab'[t].queue = next /\ tab'[t].refs = old.refs /\ tab'[t].live = old.live
        /\ tab'[t].at = (IF online THEN "head" ELSE "idle")
        /\ tab'[t].rest = IF online THEN next ELSE <<>>
    BY <1>1, <1>2, <2>2 DEF TabRow
  <2>5. InStep(t)'
    BY <1>2, <2>3, <2>4 DEF InStep
  <2>6. Kept' = Kept \cup {c}
    <3>1. Cmds(stored') = Cmds(stored) \cup {c}
      BY <1>2, <2>1, <2>3, AppendCmds
    <3> QED
      BY <2>3, <3>1 DEF Kept, Cmds
  <2> QED
    BY <1>2, <1>3, <1>4, <2>5, <2>6, KeptStep
<1>6. CASE SendLiveEvent(t, j, c)
  <2>1. tab'[t] = [old EXCEPT !.refs = old.refs \cup {c}, !.base = old.refs,
                              !.at = "posting", !.live = TRUE, !.cmd = c]
    BY <1>1, <1>2, <1>6 DEF SendLiveEvent
  <2>2. /\ tab'[t].queue = old.queue /\ tab'[t].refs = old.refs \cup {c}
        /\ tab'[t].base = old.refs /\ tab'[t].live = TRUE /\ tab'[t].cmd = c
    BY <1>2, <2>1 DEF TabRow
  <2>3. stored' = stored /\ storedRefs' = old.refs \cup {c}
    BY <1>1, <1>6 DEF SendLiveEvent
  <2>4. InStep(t)'
    BY <1>2, <2>2, <2>3 DEF InStep
  <2>5. Kept' = Kept \cup {c}
    BY <1>2, <2>3 DEF Kept, Cmds
  <2> QED
    BY <1>2, <1>3, <1>4, <2>4, <2>5, KeptStep
<1> QED
  BY <1>5, <1>6

(* What Done drops is the command it tells the agent about. *)
LEMMA DoneRetains ==
  ASSUME CommandsInv, RetentionInv, NEW t \in Tabs, NEW next,
         NEW what \in {"confirmed", "refused", "conflict"},
         tab[t].at \in {"posting", "reading"},
         \E view : next = [tab[t] EXCEPT !.view = view],
         Done(t, next, what), UNCHANGED made
  PROVE  InStep(t)' /\ RetainedUntilSettled'
<1>1. PICK old : old = tab[t]
  OBVIOUS
<1>2. PICK c : c = old.cmd
  OBVIOUS
<1>3. /\ tab \in [Tabs -> TabRow] /\ old \in TabRow /\ RowOK(old) /\ InStep(t) /\ old.open
      /\ RetainedUntilSettled /\ c \in Commands
      /\ old.queue = stored /\ old.refs = storedRefs
  BY <1>1, <1>2, TabFacts, InStepFacts DEF RowOK, InStep
<1>4. PICK view : next = [old EXCEPT !.view = view]
  BY <1>1
<1>5. PICK me : me = [next EXCEPT !.cmd = NoCommand, !.conflict = FALSE, !.live = FALSE]
  OBVIOUS
<1>6. /\ me = [old EXCEPT !.view = view, !.cmd = NoCommand, !.conflict = FALSE,
                          !.live = FALSE]
      /\ me.queue = old.queue /\ me.refs = old.refs /\ me.live = FALSE
  BY <1>3, <1>4, <1>5 DEF TabRow
<1>7. /\ outcome' = [outcome EXCEPT ![c] = what] /\ outcome'[c] # "none"
      /\ \A d \in Commands : outcome[d] = "none" \/ outcome'[d] # "none"
      /\ \A d \in Commands : Given(d)' => Given(d)
  BY <1>1, <1>2, <1>3 DEF Done, Told, CommandsInv, DeviceOK, Given
<1>8. CASE old.live
  <2>1. PICK left : left = old.base \ {c}
    OBVIOUS
  <2>2. /\ tab'[t] = [me EXCEPT !.at = "idle", !.base = {}, !.refs = left]
        /\ storedRefs' = left /\ stored' = stored
    BY <2>1, <1>1, <1>2, <1>3, <1>5, <1>8 DEF Done
  <2>3. tab'[t].at = "idle" /\ tab'[t].refs = left /\ tab'[t].queue = old.queue
    BY <1>3, <1>6, <2>2 DEF TabRow
  <2>4. InStep(t)'
    BY <1>3, <2>2, <2>3 DEF InStep
  <2>5. \A d \in Commands : d \in Kept => d \in Kept' \/ d = c
    <3>1. storedRefs = old.base \cup {c}
      BY <1>1, <1>2, <1>3, <1>8 DEF InStep
    <3> QED
      BY <3>1, <2>1, <2>2 DEF Kept, Cmds
  <2> QED
    BY <1>3, <1>7, <2>4, <2>5, KeptStep
<1>9. CASE ~old.live
  <2>1. PICK rest : rest = Tail(old.rest)
    OBVIOUS
  <2>2. /\ tab'[t] = [me EXCEPT !.queue = rest, !.rest = rest,
                                !.at = IF what = "confirmed" THEN "head" ELSE "idle"]
        /\ stored' = rest /\ storedRefs' = storedRefs
    BY <2>1, <1>1, <1>2, <1>3, <1>5, <1>9 DEF Done
  <2>3. /\ tab'[t].queue = rest /\ tab'[t].rest = rest /\ tab'[t].refs = old.refs
        /\ tab'[t].at \in {"head", "idle"}
    BY <1>3, <1>6, <2>2 DEF TabRow
  <2>4. InStep(t)'
    BY <1>3, <2>2, <2>3 DEF InStep
  <2>5. \A d \in Commands : d \in Kept => d \in Kept' \/ d = c
    <3>1. stored = old.rest /\ old.rest[1].cmd = c
      BY <1>1, <1>2, <1>3, <1>9 DEF InStep
    <3>2. old.rest \in Seq(Item) /\ old.rest # <<>>
      BY <1>1, <1>3, <1>9 DEF RowOK, TabRow
    <3>3. Cmds(stored) \subseteq Cmds(stored') \cup {c}
      BY <2>1, <2>2, <3>1, <3>2, TailCmds
    <3> QED
      BY <2>2, <3>3 DEF Kept, Cmds
  <2> QED
    BY <1>3, <1>7, <2>4, <2>5, KeptStep
<1> QED
  BY <1>8, <1>9

LEMMA ConfirmRetains ==
  ASSUME CommandsInv, RetentionInv, NEW t \in Tabs, NEW version,
         tab[t].at \in {"posting", "reading"}, Confirm(t, version), UNCHANGED made
  PROVE  InStep(t)' /\ RetainedUntilSettled'
<1>1. PICK old : old = tab[t]
  OBVIOUS
<1>2. PICK next : next = Applied(old, old.cmd, version)
  OBVIOUS
<1>3. PICK view : view = [old.view EXCEPT ![made[old.cmd].job] = version]
  OBVIOUS
<1>4. next = [old EXCEPT !.view = view]
  BY <1>2, <1>3 DEF Applied
<1>5. Done(t, next, "confirmed")
  BY <1>1, <1>2 DEF Confirm
<1> QED
  BY <1>1, <1>4, <1>5, DoneRetains

LEMMA ToldRetains ==
  ASSUME CommandsInv, RetentionInv, NEW t \in Tabs,
         NEW what \in {"refused", "conflict"},
         tab[t].at \in {"posting", "reading"}, Done(t, tab[t], what), UNCHANGED made
  PROVE  InStep(t)' /\ RetainedUntilSettled'
<1>1. PICK old : old = tab[t]
  OBVIOUS
<1>2. old \in TabRow
  BY <1>1, TabFacts
<1>3. old = [old EXCEPT !.view = old.view]
  BY <1>2 DEF TabRow
<1> QED
  BY <1>1, <1>3, DoneRetains

LEMMA UncertainRetains ==
  ASSUME CommandsInv, RetentionInv, NEW t \in Tabs, NEW conflict \in BOOLEAN,
         tab[t].at = "posting", Uncertain(t, conflict), UNCHANGED made
  PROVE  InStep(t)' /\ RetainedUntilSettled'
<1>1. PICK old : old = tab[t]
  OBVIOUS
<1>2. /\ tab \in [Tabs -> TabRow] /\ old \in TabRow /\ RowOK(old) /\ InStep(t) /\ old.open
      /\ RetainedUntilSettled /\ old.queue = stored /\ old.refs = storedRefs
  BY <1>1, TabFacts, InStepFacts DEF InStep
<1>3. CASE old.live
  <2>1. tab'[t] = [old EXCEPT !.at = "reading", !.conflict = conflict]
    BY <1>1, <1>2, <1>3 DEF Uncertain
  <2>2. /\ tab'[t].queue = old.queue /\ tab'[t].refs = old.refs /\ tab'[t].live = old.live
        /\ tab'[t].cmd = old.cmd /\ tab'[t].base = old.base
    BY <1>2, <2>1 DEF TabRow
  <2>3. UNCHANGED <<made, stored, storedRefs, outcome>>
    BY <1>1, <1>3 DEF Uncertain
  <2> QED
    BY <1>1, <1>2, <1>3, <2>2, <2>3, NothingLost DEF InStep
<1>4. CASE ~old.live
  <2>1. PICK marked : marked = Marked(old.rest)
    OBVIOUS
  <2>2. /\ tab' = [tab EXCEPT ![t].at = "reading", ![t].conflict = conflict,
                              ![t].rest = marked, ![t].queue = marked]
        /\ stored' = marked /\ UNCHANGED <<storedRefs, outcome>>
    BY <1>1, <1>4, <2>1 DEF Uncertain, Marked
  <2>3. /\ tab'[t].queue = marked /\ tab'[t].rest = marked /\ tab'[t].refs = old.refs
        /\ tab'[t].cmd = old.cmd /\ tab'[t].live = old.live
    BY <1>1, <1>2, <2>2 DEF TabRow
  <2>4. /\ old.rest = stored /\ old.rest[1].cmd = old.cmd
        /\ old.rest \in Seq(Item) /\ old.rest # <<>>
    BY <1>1, <1>2, <1>4 DEF InStep, RowOK, TabRow
  <2>5. Cmds(stored') = Cmds(stored) /\ marked[1].cmd = old.cmd
    BY <2>1, <2>2, <2>4, MarkedCmds
  <2>6. InStep(t)'
    BY <1>2, <1>4, <2>2, <2>3, <2>5 DEF InStep
  <2>7. Kept' = Kept
    BY <2>2, <2>5 DEF Kept, Cmds
  <2>8. \A c \in Commands : Given(c)' <=> Given(c)
    BY DEF Given
  <2> QED
    BY <1>2, <2>2, <2>6, <2>7, <2>8, KeptStep
<1> QED
  BY <1>3, <1>4

LEMMA ReceiveRetains ==
  ASSUME CommandsInv, RetentionInv, NEW t \in Tabs, NEW r \in wire,
         Receive(t, r) \/ GiveUp(t, r)
  PROVE  InStep(t)' /\ RetainedUntilSettled'
<1>1. tab[t].at = "posting" /\ made' = made
  BY DEF Receive, GiveUp
<1>2. CASE Confirm(t, recorded[r.cmd])
  BY <1>1, <1>2, ConfirmRetains
<1>3. CASE Done(t, tab[t], "refused")
  BY <1>1, <1>3, ToldRetains
<1>4. CASE Uncertain(t, TRUE) \/ Uncertain(t, FALSE)
  BY <1>1, <1>4, UncertainRetains
<1> QED
  BY <1>2, <1>3, <1>4 DEF Receive, GiveUp

LEMMA ReadRetains ==
  ASSUME CommandsInv, RetentionInv, NEW t \in Tabs, ReadResult(t) \/ ReadFails(t)
  PROVE  InStep(t)' /\ RetainedUntilSettled'
<1>1. tab[t].at = "reading" /\ UNCHANGED made
  BY DEF ReadResult, ReadFails
<1>2. CASE Confirm(t, recorded[tab[t].cmd])
  BY <1>1, <1>2, ConfirmRetains
<1>3. CASE ReadNothing(t)
  <2>1. PICK old : old = tab[t]
    OBVIOUS
  <2>2. /\ tab \in [Tabs -> TabRow] /\ old \in TabRow /\ InStep(t)
        /\ old.open /\ old.queue = stored /\ old.refs = storedRefs
    BY <1>1, <2>1, TabFacts, InStepFacts DEF InStep
  <2>3. CASE old.conflict
    BY <1>1, <1>3, <2>1, <2>3, ToldRetains DEF ReadNothing
  <2>4. CASE ~old.conflict
    <3>1. /\ tab'[t] = [old EXCEPT !.at = "idle", !.cmd = NoCommand, !.live = FALSE,
                                   !.base = {}, !.rest = <<>>]
          /\ UNCHANGED <<made, stored, storedRefs, outcome>>
      BY <1>1, <1>3, <2>1, <2>2, <2>4 DEF ReadNothing
    <3>2. tab'[t].at = "idle" /\ tab'[t].queue = old.queue /\ tab'[t].refs = old.refs
      BY <2>2, <3>1 DEF TabRow
    <3> QED
      BY <2>2, <3>1, <3>2, NothingLost DEF InStep
  <2> QED
    BY <2>3, <2>4
<1> QED
  BY <1>2, <1>3 DEF ReadResult, ReadFails

LEMMA ReconcileRetains ==
  ASSUME CommandsInv, RetentionInv, NEW t \in Tabs, NEW c \in Commands,
         ReconcilePending(t, c)
  PROVE  InStep(t)' /\ RetainedUntilSettled'
<1>1. PICK old : old = tab[t]
  OBVIOUS
<1>2. /\ tab \in [Tabs -> TabRow] /\ old \in TabRow /\ InStep(t) /\ old.at = "idle"
      /\ RetainedUntilSettled /\ old.queue = stored /\ old.refs = storedRefs
  BY <1>1, TabFacts, InStepFacts DEF InStep, ReconcilePending
<1>3. PICK left : left = old.refs \ {c}
  OBVIOUS
<1>4. PICK next : next = Applied(old, c, recorded[c])
  OBVIOUS
<1>5. /\ next.queue = old.queue /\ next.refs = old.refs /\ next.at = old.at
      /\ next = [old EXCEPT !.view = next.view]
  BY <1>2, <1>4 DEF Applied, TabRow
<1>6. /\ tab'[t] = [next EXCEPT !.refs = left] /\ storedRefs' = left
      /\ outcome' = [outcome EXCEPT ![c] = "confirmed"] /\ UNCHANGED <<made, stored>>
  <2>1. tab' = [tab EXCEPT ![t] = [next EXCEPT !.refs = next.refs \ {c}]]
    BY <1>1, <1>4 DEF ReconcilePending
  <2> QED
    BY <2>1, <1>1, <1>2, <1>3, <1>5 DEF ReconcilePending, Told
<1>7. tab'[t].queue = old.queue /\ tab'[t].refs = left /\ tab'[t].at = "idle"
  BY <1>2, <1>5, <1>6 DEF TabRow
<1>8. InStep(t)'
  BY <1>2, <1>6, <1>7 DEF InStep
<1>9. /\ outcome'[c] # "none"
      /\ \A d \in Commands : outcome[d] = "none" \/ outcome'[d] # "none"
      /\ \A d \in Commands : Given(d)' => Given(d)
  BY <1>6 DEF CommandsInv, DeviceOK, Given
<1>10. \A d \in Commands : d \in Kept => d \in Kept' \/ d = c
  BY <1>2, <1>3, <1>6 DEF Kept, Cmds
<1> QED
  BY <1>2, <1>8, <1>9, <1>10, KeptStep

LEMMA RetentionInit == Init => RetentionInv
<1> SUFFICES ASSUME Init PROVE RetentionInv
  OBVIOUS
<1>1. RetainedUntilSettled
  BY DEF Init, Given, RetainedUntilSettled
<1>2. \A t \in Tabs : tab[t].open = FALSE /\ tab[t].at = "idle"
  BY DEF Init, Closed
<1> QED
  BY <1>1, <1>2 DEF RetentionInv, InStep

LEMMA RetentionNext ==
  ASSUME OneTab, CommandsInv, RetentionInv, [Next]_vars PROVE RetentionInv'
<1>1. ASSUME UNCHANGED <<made, stored, storedRefs, outcome, tab>> PROVE RetentionInv'
  BY <1>1, NothingLost DEF RetentionInv, InStep
<1>2. ASSUME NEW t \in Tabs, InStep(t)' /\ RetainedUntilSettled' PROVE RetentionInv'
  BY <1>2, AllInStep DEF RetentionInv
<1>3. ASSUME NEW t \in Tabs,
             \/ Open(t) \/ Refresh(t) \/ Close(t) \/ Flush(t) \/ FlushHead(t)
             \/ ReadResult(t) \/ ReadFails(t)
      PROVE  RetentionInv'
  BY <1>2, <1>3, OpenRefreshClose, FlushRetains, ReadRetains
<1>4. ASSUME NEW t \in Tabs, NEW j \in Jobs, NEW c \in Commands,
             SendEvent(t, j, c) \/ SendLiveEvent(t, j, c)
      PROVE  RetentionInv'
  BY <1>2, <1>4, SendRetains
<1>5. ASSUME NEW t \in Tabs, NEW r \in wire, Receive(t, r) \/ GiveUp(t, r)
      PROVE  RetentionInv'
  BY <1>2, <1>5, ReceiveRetains
<1>6. ASSUME NEW t \in Tabs, NEW c \in Commands, ReconcilePending(t, c)
      PROVE  RetentionInv'
  BY <1>2, <1>6, ReconcileRetains
<1>7. ASSUME NEW r \in wire, Handle(r) \/ Refuse(r) \/ Lose(r) PROVE RetentionInv'
  BY <1>1, <1>7 DEF Handle, Refuse, Lose
<1>8. ASSUME NEW j \in Jobs, Withdraw(j) PROVE RetentionInv'
  BY <1>1, <1>8 DEF Withdraw
<1>9. CASE UNCHANGED vars
  BY <1>1, <1>9 DEF vars
<1> QED
  BY <1>3, <1>4, <1>5, <1>6, <1>7, <1>8, <1>9 DEF Next

(* On a device with one tab a command the agent gave stays on the device   *)
(* until its outcome is known, through crashes and reloads at any point of *)
(* a flush, lost requests and broken connections.                          *)
THEOREM RetainedWithOneTab == ASSUME OneTab PROVE Spec => []RetainedUntilSettled
<1>1. CommandsInv /\ RetentionInv /\ [Next]_vars => RetentionInv'
  BY RetentionNext
<1>2. RetentionInv => RetainedUntilSettled
  BY DEF RetentionInv
<1> QED
  BY <1>1, <1>2, RetentionInit, InvAlways, PTL DEF Spec

=============================================================================
