--------------------------- MODULE DeliveryCommands ---------------------------
(***************************************************************************)
(* A delivery agent's workflow commands: the browser tabs that retain them *)
(* on the device, the requests that carry them, and the server that        *)
(* records a command once, against the workflow version it was issued for. *)
(* A "queued" command carries no recipient data and is kept whole; of a    *)
(* "live" one only the reference is kept.  Every command of a job advances *)
(* its version, so the version stands for the status as well.              *)
(***************************************************************************)
EXTENDS Naturals, Sequences

CONSTANTS
  Jobs, Commands, Tabs,
  NoTab,        \* a request whose tab no longer waits for the answer
  NoCommand,
  LastVersion,  \* the version COMPLETED brings a job to
  MaxLosses,    \* bound: requests that never reach the server
  MaxCloses,    \* bound: tabs closed or crashed
  MaxRefusals   \* bound: requests refused before the command is looked at

ASSUME CommandAssumption ==
  /\ NoTab \notin Tabs /\ NoCommand \notin Commands \cup Jobs
  /\ LastVersion \in Nat \ {0}
  /\ MaxLosses \in Nat /\ MaxCloses \in Nat /\ MaxRefusals \in Nat

VARIABLES
  job,        \* the server's job: its version, whether the agent holds it
  recorded,   \* the version each command brought its job to, 0 before that
  made,       \* the payload of each command the agent gave
  wire,       \* requests on their way to the server
  stored,     \* the command queue in localStorage
  storedRefs, \* the references to live commands in localStorage
  tab,        \* the tabs' memory
  outcome,    \* what the agent was told of each command
  losses, closes, refusals

server == <<job, recorded>>
bounds == <<losses, closes, refusals>>
vars == <<job, recorded, made, wire, stored, storedRefs, tab, outcome, losses, closes, refusals>>

Item == [cmd : Commands, uncertain : BOOLEAN]

(* at "head" the flush looks at the head of rest, at "posting" it waits    *)
(* for the answer to cmd, at "reading" it asks for the result of cmd.      *)
Closed == [open |-> FALSE, queue |-> <<>>, refs |-> {}, view |-> [j \in Jobs |-> 0],
           at |-> "idle", live |-> FALSE, cmd |-> NoCommand, rest |-> <<>>,
           base |-> {}, conflict |-> FALSE]

Init ==
  /\ job = [j \in Jobs |-> [version |-> 1, held |-> TRUE]]
  /\ recorded = [c \in Commands |-> 0]
  /\ made = [c \in Commands |-> [job |-> NoCommand, expected |-> 0, live |-> FALSE]]
  /\ wire = {} /\ stored = <<>> /\ storedRefs = {}
  /\ tab = [t \in Tabs |-> Closed]
  /\ outcome = [c \in Commands |-> "none"]
  /\ losses = 0 /\ closes = 0 /\ refusals = 0

Given(c) == made[c].job # NoCommand

Told(c, what) == outcome' = [outcome EXCEPT ![c] = what]

-----------------------------------------------------------------------------
(* The server. *)

(* Fault: the ledger is not looked at before the guards. *)
ReplayedNever(c) == FALSE

Replayed(c) == recorded[c] # 0

(* The other guards of an event (the acceptance deadline, the order of the *)
(* states, the proofs) are taken to hold; failing one is a conflict too.   *)
Acceptable(c) ==
  /\ job[made[c].job].held
  /\ job[made[c].job].version = made[c].expected

Advanced(j) ==
  [j EXCEPT !.version = @ + 1, !.held = (j.version + 1 < LastVersion)]

(* The version a result carries becomes the tab's version of the job. *)
Applied(t, c, version) == [t EXCEPT !.view[made[c].job] = version]

-----------------------------------------------------------------------------
(* The device.  refresh reads the workspace and both stored queues anew.   *)

(* Fault: the references are not restored. *)
RefreshedQueueOnly(t) ==
  [t EXCEPT !.queue = stored,
            !.view = [j \in Jobs |-> IF job[j].held THEN job[j].version ELSE 0]]

Refreshed(t) ==
  [t EXCEPT !.queue = stored, !.refs = storedRefs,
            !.view = [j \in Jobs |-> IF job[j].held THEN job[j].version ELSE 0]]

Open(t) ==
  /\ ~tab[t].open
  /\ tab' = [tab EXCEPT ![t] = [Refreshed(Closed) EXCEPT !.open = TRUE]]
  /\ UNCHANGED <<server, made, wire, stored, storedRefs, outcome, bounds>>

Refresh(t) ==
  /\ tab[t].open /\ Refreshed(tab[t]) # tab[t]
  /\ tab' = [tab EXCEPT ![t] = Refreshed(tab[t])]
  /\ UNCHANGED <<server, made, wire, stored, storedRefs, outcome, bounds>>

(* The tab is closed or its browser crashes: its requests stay under way.  *)
Close(t) ==
  /\ tab[t].open /\ closes < MaxCloses
  /\ closes' = closes + 1
  /\ tab' = [tab EXCEPT ![t] = Closed]
  /\ wire' = {[r EXCEPT !.tab = IF @ = t THEN NoTab ELSE @] : r \in wire}
  /\ UNCHANGED <<server, made, stored, storedRefs, outcome, losses, refusals>>

Unsettled(t) == {tab[t].queue[i].cmd : i \in DOMAIN tab[t].queue} \cup tab[t].refs

ReadyForCommand(t, j) ==
  /\ tab[t].open /\ tab[t].at = "idle"
  /\ tab[t].view[j] \in 1..LastVersion-1
  /\ \A c \in Unsettled(t) : made[c].job # j

Payload(t, j, live) == [job |-> j, expected |-> tab[t].view[j], live |-> live]

(* persist: the tab's own list replaces whatever is stored. *)
SendEvent(t, j, c) ==
  LET next == Append(tab[t].queue, [cmd |-> c, uncertain |-> FALSE]) IN
  /\ ReadyForCommand(t, j) /\ ~Given(c)
  /\ made' = [made EXCEPT ![c] = Payload(t, j, FALSE)]
  /\ stored' = next
  /\ \E online \in BOOLEAN :
       tab' = [tab EXCEPT ![t].queue = next,
                          ![t].at = IF online THEN "head" ELSE "idle",
                          ![t].rest = IF online THEN next ELSE <<>>]
  /\ UNCHANGED <<server, wire, storedRefs, outcome, bounds>>

SendLiveEvent(t, j, c) ==
  LET next == tab[t].refs \cup {c} IN
  /\ ReadyForCommand(t, j) /\ ~Given(c)
  /\ made' = [made EXCEPT ![c] = Payload(t, j, TRUE)]
  /\ storedRefs' = next
  /\ wire' = wire \cup {[cmd |-> c, tab |-> t, answer |-> "none"]}
  /\ tab' = [tab EXCEPT ![t].refs = next, ![t].base = tab[t].refs,
                        ![t].at = "posting", ![t].live = TRUE, ![t].cmd = c]
  /\ UNCHANGED <<server, stored, outcome, bounds>>

Flush(t) ==
  /\ tab[t].open /\ tab[t].at = "idle" /\ tab[t].queue # <<>>
  /\ tab' = [tab EXCEPT ![t].at = "head", ![t].rest = tab[t].queue]
  /\ UNCHANGED <<server, made, wire, stored, storedRefs, outcome, bounds>>

FlushHead(t) ==
  /\ tab[t].at = "head"
  /\ IF tab[t].rest = <<>>
     THEN /\ tab' = [tab EXCEPT ![t].at = "idle"]
          /\ UNCHANGED wire
     ELSE LET head == tab[t].rest[1] IN
          /\ tab' = [tab EXCEPT ![t].at = IF head.uncertain THEN "reading" ELSE "posting",
                                ![t].cmd = head.cmd, ![t].conflict = FALSE]
          /\ wire' = IF head.uncertain THEN wire
                     ELSE wire \cup {[cmd |-> head.cmd, tab |-> t, answer |-> "none"]}
  /\ UNCHANGED <<server, made, stored, storedRefs, outcome, bounds>>

-----------------------------------------------------------------------------
(* Requests and answers. *)

Answer(r, what) ==
  wire' = (wire \ {r}) \cup (IF r.tab = NoTab THEN {} ELSE {[r EXCEPT !.answer = what]})

(* The workflow route: a replay answers with the recorded result. *)
Handle(r) ==
  LET c == r.cmd
      j == made[c].job
  IN
  /\ r.answer = "none"
  /\ IF ~Replayed(c) /\ Acceptable(c)
     THEN /\ job' = [job EXCEPT ![j] = Advanced(@)]
          /\ recorded' = [recorded EXCEPT ![c] = job[j].version + 1]
     ELSE UNCHANGED server
  /\ Answer(r, IF Replayed(c) \/ Acceptable(c) THEN "committed" ELSE "conflict")
  /\ UNCHANGED <<made, stored, storedRefs, tab, outcome, bounds>>

(* No session, or one without the permission. *)
Refuse(r) ==
  /\ r.answer = "none" /\ refusals < MaxRefusals
  /\ refusals' = refusals + 1
  /\ Answer(r, "refused")
  /\ UNCHANGED <<server, made, stored, storedRefs, tab, outcome, losses, closes>>

Lose(r) ==
  /\ r.answer = "none" /\ losses < MaxLosses
  /\ losses' = losses + 1
  /\ wire' = (wire \ {r}) \cup (IF r.tab = NoTab THEN {} ELSE {[r EXCEPT !.answer = "failed"]})
  /\ UNCHANGED <<server, made, stored, storedRefs, tab, outcome, closes, refusals>>

(* The supervisor cancels the job or releases it to the pool. *)
Withdraw(j) ==
  /\ job[j].held
  /\ job' = [job EXCEPT ![j] = [version |-> @.version + 1, held |-> FALSE]]
  /\ UNCHANGED <<recorded, made, wire, stored, storedRefs, tab, outcome, bounds>>

-----------------------------------------------------------------------------
(* The tab goes on.  Done drops the head of the flush, or the reference of *)
(* the live command from the list it had before it added it.               *)

Done(t, next, what) ==
  LET rest == Tail(tab[t].rest)
      me == [next EXCEPT !.cmd = NoCommand, !.conflict = FALSE, !.live = FALSE]
  IN
  /\ Told(tab[t].cmd, what)
  /\ IF tab[t].live
     THEN /\ tab' = [tab EXCEPT ![t] = [me EXCEPT !.at = "idle", !.base = {},
                                                  !.refs = tab[t].base \ {tab[t].cmd}]]
          /\ storedRefs' = tab[t].base \ {tab[t].cmd}
          /\ UNCHANGED stored
     ELSE /\ tab' = [tab EXCEPT ![t] = [me EXCEPT !.queue = rest, !.rest = rest,
                                          !.at = IF what = "confirmed" THEN "head" ELSE "idle"]]
          /\ stored' = rest
          /\ UNCHANGED storedRefs

Confirm(t, version) == Done(t, Applied(tab[t], tab[t].cmd, version), "confirmed")

(* Uncertain, or a conflict: mark the head and ask for the result. *)
Uncertain(t, conflict) ==
  LET marked == [tab[t].rest EXCEPT ![1].uncertain = TRUE] IN
  IF tab[t].live
  THEN /\ tab' = [tab EXCEPT ![t].at = "reading", ![t].conflict = conflict]
       /\ UNCHANGED <<stored, storedRefs, outcome>>
  ELSE /\ tab' = [tab EXCEPT ![t].at = "reading", ![t].conflict = conflict,
                             ![t].rest = marked, ![t].queue = marked]
       /\ stored' = marked
       /\ UNCHANGED <<storedRefs, outcome>>

Receive(t, r) ==
  /\ r.tab = t /\ tab[t].at = "posting" /\ tab[t].cmd = r.cmd /\ r.answer # "none"
  /\ wire' = wire \ {r}
  /\ \/ r.answer = "committed" /\ Confirm(t, recorded[r.cmd])
     \/ r.answer = "refused" /\ Done(t, tab[t], "refused")
     \/ r.answer = "conflict" /\ Uncertain(t, TRUE)
     \/ r.answer = "failed" /\ Uncertain(t, FALSE)
  /\ UNCHANGED <<server, made, bounds>>

(* Fault: the tab has given up, its request does not know. *)
GiveUpStillListening(t, r) ==
  /\ r.tab = t /\ tab[t].at = "posting" /\ tab[t].cmd = r.cmd
  /\ Uncertain(t, FALSE)
  /\ UNCHANGED <<server, made, wire, bounds>>

(* The connection breaks: the request may still arrive, its answer will not. *)
GiveUp(t, r) ==
  /\ r.tab = t /\ tab[t].at = "posting" /\ tab[t].cmd = r.cmd
  /\ wire' = (wire \ {r}) \cup
             (IF r.answer = "none" THEN {[r EXCEPT !.tab = NoTab]} ELSE {})
  /\ Uncertain(t, FALSE)
  /\ UNCHANGED <<server, made, bounds>>

Found(c) == recorded[c] # 0

(* Fault: a command whose outcome is not known is dropped from the device. *)
ReadNothingForgets(t) ==
  Done(t, tab[t], IF tab[t].conflict THEN "conflict" ELSE "none")

(* readCommandResult, its last attempt: no result, or no connection. *)
ReadNothing(t) ==
  IF tab[t].conflict THEN Done(t, tab[t], "conflict")
  ELSE /\ tab' = [tab EXCEPT ![t].at = "idle", ![t].cmd = NoCommand, ![t].live = FALSE,
                             ![t].base = {}, ![t].rest = <<>>]
       /\ UNCHANGED <<stored, storedRefs, outcome>>

ReadResult(t) ==
  /\ tab[t].at = "reading"
  /\ IF Found(tab[t].cmd) THEN Confirm(t, recorded[tab[t].cmd]) ELSE ReadNothing(t)
  /\ UNCHANGED <<server, made, wire, bounds>>

ReadFails(t) ==
  /\ tab[t].at = "reading" /\ ReadNothing(t)
  /\ UNCHANGED <<server, made, wire, bounds>>

(* One reference of reconcilePendingCommands that has a result. *)
ReconcilePending(t, c) ==
  /\ tab[t].open /\ tab[t].at = "idle" /\ c \in tab[t].refs /\ Found(c)
  /\ Told(c, "confirmed")
  /\ tab' = [tab EXCEPT ![t] = [Applied(tab[t], c, recorded[c]) EXCEPT !.refs = @ \ {c}]]
  /\ storedRefs' = tab[t].refs \ {c}
  /\ UNCHANGED <<server, made, wire, stored, bounds>>

-----------------------------------------------------------------------------
Next ==
  \/ \E t \in Tabs :
       \/ Open(t) \/ Refresh(t) \/ Close(t) \/ Flush(t) \/ FlushHead(t)
       \/ ReadResult(t) \/ ReadFails(t)
       \/ \E j \in Jobs, c \in Commands : SendEvent(t, j, c) \/ SendLiveEvent(t, j, c)
       \/ \E r \in wire : Receive(t, r) \/ GiveUp(t, r)
       \/ \E c \in Commands : ReconcilePending(t, c)
  \/ \E r \in wire : Handle(r) \/ Refuse(r) \/ Lose(r)
  \/ \E j \in Jobs : Withdraw(j)

Spec == Init /\ [][Next]_vars

(* The agent keeps a tab open and presses Sync now while something is      *)
(* retained; a request under way arrives; a read with an answer to give    *)
(* gives it sooner or later.                                               *)
Fairness ==
  /\ \A t \in Tabs :
       /\ WF_vars(Open(t)) /\ SF_vars(Flush(t)) /\ WF_vars(FlushHead(t))
       /\ SF_vars(ReadResult(t) /\ Found(tab[t].cmd)) /\ WF_vars(ReadResult(t))
       /\ WF_vars(\E r \in wire : Receive(t, r))
       /\ WF_vars(Refresh(t))
       /\ \A c \in Commands : SF_vars(ReconcilePending(t, c))
  /\ WF_vars(\E r \in wire : Handle(r))

FairSpec == Spec /\ Fairness

-----------------------------------------------------------------------------
(* Properties. *)

(* Jobs, payloads, queues and outcomes are well formed, and a tab waits    *)
(* for a request only while one of its own is on the wire.                 *)
CommandsTypeOK ==
  /\ job \in [Jobs -> [version : 1..LastVersion+1, held : BOOLEAN]]
  /\ recorded \in [Commands -> 0..LastVersion]
  /\ made \in [Commands -> [job : Jobs \cup {NoCommand}, expected : 0..LastVersion,
                            live : BOOLEAN]]
  /\ \A t \in Tabs :
       /\ tab[t].refs \subseteq Commands /\ tab[t].cmd \in Commands \cup {NoCommand}
       /\ \A i \in DOMAIN tab[t].queue : tab[t].queue[i] \in Item
  /\ storedRefs \subseteq Commands
  /\ outcome \in [Commands -> {"none", "confirmed", "conflict", "refused"}]
  /\ \A t \in Tabs : tab[t].at = "posting" <=> \E r \in wire : r.tab = t

(* What the agent is told of a command is true and stays true: a confirmed *)
(* one is in the ledger, at the version after the one it was issued for,   *)
(* and one that was given up as a conflict is never recorded, whichever of *)
(* its copies arrives late.                                                *)
OutcomesAreTrue ==
  \A c \in Commands :
    /\ outcome[c] = "confirmed" => recorded[c] = made[c].expected + 1
    /\ outcome[c] = "conflict" => recorded[c] = 0

(* A command the agent gave is on the device until its outcome is known,   *)
(* through crashes and reloads at any point of a flush.                    *)
RetainedUntilSettled ==
  \A c \in Commands :
    Given(c) /\ outcome[c] = "none" =>
      \/ \E i \in DOMAIN stored : stored[i].cmd = c
      \/ c \in storedRefs

(* A command the server recorded is confirmed to the agent in the end,     *)
(* however often its answer is lost or the browser crashes (or is answered *)
(* as refused, when the session ended before a repetition).                *)
RecordedCommandsAreTold ==
  \A c \in Commands : recorded[c] # 0 ~> outcome[c] # "none"
=============================================================================
