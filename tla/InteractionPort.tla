--------------------------- MODULE InteractionPort ---------------------------
(***************************************************************************)
(* FileInteractionPort (interaction.py): what a user asks of a running     *)
(* flow, in files of the workspace.  user_events.jsonl and                 *)
(* user_event_acks.jsonl only grow, a line per append; a safe-point        *)
(* snapshot is a JSON file that projects the events pending when it was    *)
(* written.  Every port object over a workspace reads and appends the same *)
(* files, so a user interface and run_flow share this state.               *)
(*                                                                         *)
(* The lines are kept as sets: an event is submitted once, and no decision *)
(* depends on the order of the lines.  Agent events, which no kernel code  *)
(* reads, are left out.                                                    *)
(***************************************************************************)
EXTENDS KernelContracts

CONSTANTS
  Events,      \* the user events that may be submitted (ids are UUIDs)
  Kind,        \* [Events -> UserEventKind]
  Delivery,    \* [Events -> InteractionDelivery]
  Target       \* [Events -> Steps \cup {"flow"}]; "all" is read as "flow" is

UserEventKind == {"message", "clarification", "correction", "approval_decision",
                  "pause_request", "cancel_request", "contract_revision_request"}

InteractionDelivery == {"next_safe_point", "after_current_turn",
                        "immediate_cancel", "queue_for_reviewer"}

UserEventsValid ==
  /\ Kind \in [Events -> UserEventKind]
  /\ Delivery \in [Events -> InteractionDelivery]
  /\ Target \in [Events -> Steps \cup {"flow"}]

ASSUME EventDeclarations == UserEventsValid

VARIABLES
  userEvents,  \* user_events.jsonl
  acks,        \* user_event_acks.jsonl
  snapshots    \* the safe-point snapshots written so far

portVars == <<userEvents, acks, snapshots>>

Acks == [event : Events, snap : Snapshots, key : Keys]

PortTypeOK ==
  /\ userEvents \subseteq Events
  /\ acks \subseteq Acks
  /\ DOMAIN snapshots \subseteq Snapshots
  /\ snapshots \in [DOMAIN snapshots -> SUBSET Events]

PortInit ==
  /\ userEvents = {}
  /\ acks = {}
  /\ snapshots = <<>>

Acknowledged == {ack.event : ack \in acks}

\* pending_user_events for a step.
Pending(target) ==
  {event \in userEvents \ Acknowledged : Target[event] \in {target, "flow"}}

\* What makes _interaction_stop_decision stop a flow.
Stops(event) ==
  \/ Kind[event] \in {"pause_request", "contract_revision_request"}
  \/ /\ Kind[event] = "cancel_request"
     /\ Delivery[event] # "queue_for_reviewer"

SubmitUserEvent(event) ==
  /\ event \notin userEvents
  /\ userEvents' = userEvents \cup {event}
  /\ UNCHANGED <<acks, snapshots>>

\* write_pending_projection.  It reads the pending events a second time.
WritePendingProjection(snap, target) ==
  /\ snapshots' = [s \in DOMAIN snapshots \cup {snap} |->
                     IF s = snap THEN Pending(target) ELSE snapshots[s]]
  /\ UNCHANGED <<userEvents, acks>>

Acknowledge(event, snap, key) ==
  /\ acks' = acks \cup {[event |-> event, snap |-> snap, key |-> key]}
  /\ UNCHANGED <<userEvents, snapshots>>
=============================================================================
