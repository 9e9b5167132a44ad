------------------------------ MODULE MsclPage ------------------------------
(***************************************************************************)
(* The node page of the MSCL collector in one browser                      *)
(* (app/mscl/static/mscl_web_config.js), with the collector it asks and     *)
(* whoever else asks it (MsclSampling).                                     *)
(*                                                                         *)
(* A handler of the page sends a request and goes on when the answer is     *)
(* there; in between the user presses other buttons and picks other nodes,  *)
(* and the answers come in any order.  A read goes on twice: it shows the   *)
(* card and fills most of it, asks for the diagnostics, and only with their *)
(* answer fills sample rate and channels and confirms the read.             *)
(*                                                                         *)
(* A request is served, holding OP_LOCK, in the step that answers it.  A    *)
(* node tells its state or does not; a part of the form is the node its     *)
(* values were read from.                                                  *)
(***************************************************************************)
EXTENDS MsclSampling

CONSTANTS
  NoNode,       \* no values in the form yet
  MaxInFlight   \* bound of the model: requests on their way

ASSUME InFlightAssumption == MaxInFlight \in Nat

VARIABLES
  selected,       \* value of the select nodeId
  idleConfirmed, readConfirmed,
  readEnabled,    \* ~btnRead.disabled
  cardOf,         \* the node whose values most fields hold, while configCard is displayed;
                  \* what fills them displays it
  rateOf,         \* the node whose sample rate and channels they hold
  requests,       \* not answered yet: what is asked, and of which node
  idleOf,         \* history: the nodes the answer behind idleConfirmed called idle
  late            \* history: parts of the form filled with another node selected

formVars == <<cardOf, rateOf, late>>
pageVars == <<selected, idleConfirmed, readConfirmed, readEnabled, formVars,
              requests, idleOf>>

\* Probe, Connect, Sleep and Power Cycle differ in nothing the page keeps.
Touches == {"touch"}
\* "fill" is the second part of a read, which waits for the diagnostics.
PerNode == {"read", "fill", "idle"}
Parts == {"card", "rate"}
Request == [op : PerNode, node : Nodes]
             \cup [op : Touches \cup {"start", "stop"}, node : {NoNode}]

PageInit ==
  /\ SamplingInit
  /\ selected \in Nodes
  /\ idleConfirmed = FALSE
  /\ readConfirmed = FALSE
  /\ readEnabled = FALSE
  /\ cardOf = NoNode
  /\ rateOf = NoNode
  /\ requests = {}
  /\ idleOf = {}
  /\ late = {}

\* markIdleState with what the answer said; updateReadWriteButtons.
MarkIdle(isIdle, nodes) ==
  /\ idleConfirmed' = isIdle
  /\ readEnabled' = isIdle
  /\ idleOf' = IF isIdle THEN nodes ELSE {}

\* btnWrite.disabled and the test of applyConfig, on a card that is there; what
\* is sent at once is the selected node and the values of the fields.
CanWrite == cardOf # NoNode /\ idleConfirmed /\ readConfirmed

-----------------------------------------------------------------------------
(* The user.                                                               *)

\* Mutant: the select has no handler.
SelectOnly(n) ==
  /\ n # selected
  /\ selected' = n
  /\ UNCHANGED <<idleConfirmed, readConfirmed, readEnabled, formVars, requests,
                 idleOf, samplingVars>>

\* The handler of nodeId: what was read is off the page, that the node is idle
\* stays, and btnRead is enabled again by it.
Select(n) ==
  /\ n # selected
  /\ selected' = n
  /\ cardOf' = NoNode
  /\ readConfirmed' = FALSE
  /\ readEnabled' = idleConfirmed
  /\ late' = {}
  /\ UNCHANGED <<idleConfirmed, rateOf, requests, idleOf, samplingVars>>

Ask(request) ==
  /\ Cardinality(requests) < MaxInFlight
  /\ request \notin requests
  /\ requests' = requests \cup {request}

\* readConfig, up to its fetch.
PressRead ==
  /\ readEnabled
  /\ Ask([op |-> "read", node |-> selected])
  /\ readEnabled' = FALSE
  /\ cardOf' = NoNode
  /\ late' = late \ {"card"}
  /\ UNCHANGED <<selected, idleConfirmed, readConfirmed, rateOf, idleOf, samplingVars>>

\* setNodeIdle, probeNode, ..., stopSamplingRun, up to their fetch: each
\* disables its own button until it is answered.
Press(op) ==
  /\ \A request \in requests : request.op # op
  /\ op = "start" => rateOf # NoNode
  /\ Ask([op |-> op, node |-> IF op \in PerNode THEN selected ELSE NoNode])
  /\ UNCHANGED <<selected, idleConfirmed, readConfirmed, readEnabled, formVars, idleOf,
                 samplingVars>>

-----------------------------------------------------------------------------
(* The collector serves a request and the page has the answer.             *)

Answered(request) == request \in requests /\ requests' = requests \ {request}

\* A part of the form is filled, whichever node is selected by now.
Fill(part, node) ==
  late' = IF node = selected THEN late \ {part} ELSE late \cup {part}

\* The card is there with most of its fields; the diagnostics are asked for.
ReadShown(request) ==
  /\ request.op = "read"
  /\ requests' = (requests \ {request}) \cup {[op |-> "fill", node |-> request.node]}
  /\ cardOf' = request.node
  /\ Fill("card", request.node)
  /\ UNCHANGED <<selected, idleConfirmed, readConfirmed, readEnabled, rateOf, idleOf,
                 samplingVars>>

\* The diagnostics are there, or failed: the same.  The node's state was read along
\* with its configuration.
ReadFilled(request, idle) ==
  /\ request.op = "fill"
  /\ Answered(request)
  /\ idle \subseteq {request.node}
  /\ rateOf' = request.node
  /\ Fill("rate", request.node)
  /\ readConfirmed' = TRUE
  /\ MarkIdle(idle # {}, idle)
  /\ UNCHANGED <<selected, cardOf, samplingVars>>

\* Refused or failed; a card another read has shown stays.
ReadBad(request) ==
  /\ request.op = "read"
  /\ Answered(request)
  /\ readConfirmed' = FALSE
  /\ MarkIdle(FALSE, {})
  /\ UNCHANGED <<selected, formVars, samplingVars>>

\* No answer: only the finally of readConfig runs.
ReadLost(request) ==
  /\ request.op = "read"
  /\ Answered(request)
  /\ readEnabled' = (readEnabled \/ idleConfirmed)
  /\ UNCHANGED <<selected, idleConfirmed, readConfirmed, formVars, idleOf, samplingVars>>

\* api_node_idle refuses a node that is being sampled; everything but a
\* confirmation, no answer included, is markIdleState(false).
IdleAnswered(request, idle) ==
  /\ request.op = "idle"
  /\ Answered(request)
  /\ idle \subseteq IF SamplingActive(request.node) THEN {} ELSE {request.node}
  /\ MarkIdle(idle # {}, idle)
  /\ UNCHANGED <<selected, readConfirmed, formVars, samplingVars>>

\* Done, or for Probe and Connect also refused.
TouchDone(request) ==
  /\ request.op \in Touches
  /\ Answered(request)
  /\ MarkIdle(FALSE, {})
  /\ UNCHANGED <<selected, readConfirmed, formVars, samplingVars>>

StartDone(request, started, timed) ==
  /\ request.op = "start"
  /\ Answered(request)
  /\ RecordStart(started, timed)
  /\ MarkIdle(FALSE, {})
  /\ UNCHANGED <<selected, readConfirmed, formVars>>

\* The command was sent to some node: success, whatever those nodes answered.
StopDone(request, stopped, idle) ==
  /\ request.op = "stop"
  /\ Answered(request)
  /\ stopped # {}
  /\ idle \subseteq stopped
  /\ RecordStop(stopped)
  /\ MarkIdle(TRUE, idle)
  /\ UNCHANGED <<selected, readConfirmed, formVars>>

\* Refused, or the answer is lost on its way (StartDone and StopDone without
\* the page are steps of SamplingNext): the page only says so.
NothingDone(request) ==
  /\ request.op \notin PerNode
  /\ Answered(request)
  /\ UNCHANGED <<selected, idleConfirmed, readConfirmed, readEnabled, formVars, idleOf,
                 samplingVars>>

Answer(request) ==
  \/ \E idle \in SUBSET Nodes : ReadFilled(request, idle) \/ IdleAnswered(request, idle)
  \/ ReadShown(request)
  \/ ReadBad(request)
  \/ ReadLost(request)
  \/ TouchDone(request)
  \/ \E started \in SUBSET Nodes, timed \in BOOLEAN : StartDone(request, started, timed)
  \/ \E stopped \in SUBSET Nodes : \E idle \in SUBSET stopped :
       StopDone(request, stopped, idle)
  \/ NothingDone(request)

-----------------------------------------------------------------------------

PageNext ==
  \/ \E n \in Nodes : Select(n)
  \/ PressRead
  \/ \E op \in {"idle", "start", "stop"} \cup Touches : Press(op)
  \/ \E request \in requests : Answer(request)
  \/ SamplingNext /\ UNCHANGED pageVars

PageSpec == PageInit /\ [][PageNext]_<<samplingVars, pageVars>>

-----------------------------------------------------------------------------
(* Properties.                                                             *)

PageTypeOK ==
  /\ SamplingTypeOK
  /\ selected \in Nodes
  /\ {idleConfirmed, readConfirmed, readEnabled} \subseteq BOOLEAN
  /\ {cardOf, rateOf} \subseteq Nodes \cup {NoNode}
  /\ late \subseteq Parts
  /\ requests \subseteq Request
  /\ Cardinality(requests) <= MaxInFlight
  /\ idleOf \subseteq Nodes

\* Whatever was pressed and answered in whatever order: a write sends the selected
\* node another node's values only if a read filled that part of the form, its card
\* or its sample rate and channels, with another node selected and nothing has
\* filled it for the selected one since.  The two parts come apart: node A's rate,
\* filled when B is selected already, is what a write sends B along with B's own
\* card while a read of B waits for its diagnostics.
OwnSettings ==
  CanWrite => /\ cardOf = selected \/ "card" \in late
              /\ rateOf = selected \/ "rate" \in late

\* "Node is not confirmed in Idle. Press Set to Idle first."
\* (mscl_web_config.js:1020): a write is for a node that was confirmed idle.
WritesIdleNode == CanWrite => selected \in idleOf
=============================================================================
