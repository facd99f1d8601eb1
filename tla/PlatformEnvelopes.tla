-------------------------- MODULE PlatformEnvelopes --------------------------
(***************************************************************************)
(* The event envelopes of one workspace, as constants, and what the bridge *)
(* reads off them: the commands of an event, the row each command has in   *)
(* the command log, and how its failures and its alert are classified.     *)
(***************************************************************************)
EXTENDS Naturals, PlatformContracts

CONSTANTS
  EventIds,        \* event_id values, one per envelope
  Keys,            \* idempotency keys
  TypeOf,          \* the event_type of an envelope
  SourceOf,        \* its source_system
  KeyOf,           \* its idempotency_key
  LocalEvents      \* envelopes built by the CRM's own webchat routes

ASSUME EnvelopeAssumption ==
  /\ TypeOf   \in [EventIds -> EventTypes]
  /\ SourceOf \in [EventIds -> SourceSystems]
  /\ KeyOf    \in [EventIds -> Keys]
  /\ LocalEvents \subseteq EventIds

CommandsOf(e)    == DerivedCommands(SourceOf[e], TypeOf[e])
NumCommands(e)   == Len(CommandsOf(e))
NonFatal(e)      == TypeOf[e] \in NonFatalTypes
LeadAlert(e)     == SourceOf[e] = "agentic_runtime" /\ TypeOf[e] \in LeadAlertTypes

\* A command row is unique per envelope key and command type.
CommandKeys      == Keys \X CommandTypes
CommandKey(e, i) == << KeyOf[e], CommandsOf(e)[i] >>
CommandKeysOf(e) == { CommandKey(e, i) : i \in 1 .. NumCommands(e) }

=============================================================================
