-------------------------- MODULE PlatformContracts --------------------------
(***************************************************************************)
(* The vocabulary of the platform bridge: which commands an incoming       *)
(* event is turned into, in which order, and how the processor and the     *)
(* lead alert classify event types.                                        *)
(***************************************************************************)
EXTENDS Sequences

CommandTypes ==
  { "CreateOrUpdateLeadFromConversation", "MatchCustomerByChannelIdentity",
    "CreateCallbackTask", "CreateOrUpdateAppointment", "CreateEscalationTask",
    "LinkConversationToCustomerOrJob", "UpsertAppointmentFromPlatformBooking",
    "CancelAppointmentFromPlatformBooking", "UpsertLeadFromPlatform",
    "RecordResourceAvailabilityChange" }

EventTypes ==
  { "MissedCallCaptured", "ConversationStarted", "ConversationRestarted",
    "ConversationQualified", "BookingRequested", "BookingConfirmed",
    "BookingCompleted", "AutomationDispatched", "EscalationRaised",
    "DeliveryStatusUpdated", "CustomerUpdated", "CustomerPromiseChanged",
    "JobCreated", "JobRescheduled", "JobCompleted", "QuoteAccepted",
    "InvoiceOverdue", "WorkspaceSettingsChanged", "booking.held",
    "booking.confirmed", "booking.cancelled", "booking.rescheduled",
    "lead.upserted", "resource.availability_changed" }

SourceSystems == { "agentic_runtime", "crm" }

(* The commands an event of type t from system s is turned into, in order. *)
DerivedCommands(s, t) ==
  IF s # "agentic_runtime" THEN << >>
  ELSE CASE t \in { "booking.held", "booking.confirmed", "booking.rescheduled" } ->
              << "UpsertAppointmentFromPlatformBooking" >>
         [] t = "booking.cancelled" -> << "CancelAppointmentFromPlatformBooking" >>
         [] t = "lead.upserted" -> << "UpsertLeadFromPlatform" >>
         [] t = "resource.availability_changed" -> << "RecordResourceAvailabilityChange" >>
         [] t = "MissedCallCaptured" -> << "CreateCallbackTask" >>
         [] t \in { "ConversationStarted", "ConversationRestarted" } ->
              << "MatchCustomerByChannelIdentity", "LinkConversationToCustomerOrJob" >>
         [] t = "ConversationQualified" -> << "CreateOrUpdateLeadFromConversation" >>
         [] t = "BookingConfirmed" ->
              << "LinkConversationToCustomerOrJob", "CreateOrUpdateAppointment" >>
         [] t = "BookingCompleted" -> << "CreateOrUpdateAppointment" >>
         [] t = "EscalationRaised" -> << "CreateEscalationTask" >>
         [] OTHER -> << >>

(* Failures of these types are answered 202 and left for a manager.        *)
NonFatalTypes ==
  { "ConversationStarted", "ConversationRestarted", "ConversationQualified" }

(* The office is sent one SMS about an event of these types.               *)
LeadAlertTypes ==
  { "ConversationQualified", "EscalationRaised", "BookingConfirmed",
    "booking.confirmed", "lead.upserted" }

=============================================================================
