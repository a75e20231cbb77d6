--------------------------- MODULE RemoteCommands ---------------------------
(***************************************************************************)
(* What the command API promises the owner of a device: a request creates  *)
(* at most one command; within the idempotency window all requests with    *)
(* the same key are about the same command; commands are Cooldown apart;   *)
(* and the device is sent nothing but commands that have been created.     *)
(* CommandApi implements it with three kinds of DynamoDB items.            *)
(***************************************************************************)
EXTENDS Naturals

CONSTANTS Request, Key, NoKey, Moment, KeyWindow, Cooldown, NoRequest

VARIABLES asked,      \* what each request asks: its key and the time it came
          commands,   \* the commands created so far
          sent,       \* the commands that have been sent to the device
          reply       \* the command each request has been answered with

commandVars == <<asked, commands, sent, reply>>

Init == /\ asked = [r \in Request |-> NoRequest]
        /\ commands = {}
        /\ sent = {}
        /\ reply = [r \in Request |-> NoRequest]

Ask(r) == /\ asked[r] = NoRequest
          /\ \E k \in Key \cup {NoKey}, t \in Moment :
               asked' = [asked EXCEPT ![r] = [key |-> k, at |-> t]]
          /\ UNCHANGED <<commands, sent, reply>>

\* The command of r is created unless it comes too soon after another one or
\* its key already has a command.
Create(r) ==
  /\ asked[r] # NoRequest
  /\ LET new == [id |-> r, key |-> asked[r].key, issued |-> asked[r].at]
     IN /\ \A c \in commands : c.issued + Cooldown <= new.issued
        /\ \A c \in commands : new.key \in Key /\ c.key = new.key => c.issued + KeyWindow <= new.issued
        /\ commands' = commands \cup {new}
  /\ UNCHANGED <<asked, sent, reply>>

Send(c) == /\ c \in commands
           /\ sent' = sent \cup {c.id}
           /\ UNCHANGED <<asked, commands, reply>>

\* r is answered with its own command or with the recent one of its key.
Answer(r, c) ==
  /\ reply[r] = NoRequest /\ asked[r] # NoRequest
  /\ c \in commands
  /\ \/ c.id = r
     \/ c.key \in Key /\ c.key = asked[r].key /\ asked[r].at < c.issued + KeyWindow
  /\ reply' = [reply EXCEPT ![r] = c.id]
  /\ UNCHANGED <<asked, commands, sent>>

Next == \/ \E r \in Request : Ask(r) \/ Create(r) \/ \E c \in commands : Answer(r, c)
        \/ \E c \in commands : Send(c)

Spec == Init /\ [][Next]_commandVars
=============================================================================
