------------------------ MODULE MCTelemetryIngestion ------------------------
(* TelemetryIngestion for TLC: what the device publishes in each run.      *)
EXTENDS TelemetryIngestion, TLC

Event(id, occurred, ring) ==
  [category |-> "events", id |-> id, occurred |-> occurred, status |-> "NONE", ring |-> ring,
   form |-> "valid"]
Response(status) ==
  [category |-> "responses", id |-> "c1", occurred |-> Unstamped, status |-> status,
   ring |-> FALSE, form |-> "valid"]
Health(form) ==
  [category |-> "health", id |-> "", occurred |-> Unstamped, status |-> "NONE", ring |-> FALSE,
   form |-> form]

\* A ring, health, a message that cannot be parsed and one without a device, and
\* two responses to one command.
MCTelemetry == {Event("e1", Unstamped, TRUE),
                Health("valid"), Health("invalid"), Health("unknown device"),
                Response("ACCEPTED"), Response("COMPLETED")}
=============================================================================
