----------------------------- MODULE WebMention -----------------------------
(***************************************************************************)
(* Webmentions: an inbox of those other pods send and an outbox of those   *)
(* this pod's twts cause, two buffered channels, each worked off by a loop *)
(* over a timer (webmention.New).  The timer fires once; the loop then     *)
(* takes one mention from its channel, processes it, and waits for the     *)
(* timer to fire again, which nothing makes it do.                         *)
(*                                                                         *)
(* Fetching pages and posting to other pods is a success or a failure; a   *)
(* failure without a response is logged with the status of the response    *)
(* that is not there, which ends the program.                              *)
(***************************************************************************)
EXTENDS Naturals, Sequences

CONSTANTS
  Mention,    \* mentions of other pods, and twts that mention them
  NoMention,
  Capacity,   \* of each channel, a hundred in the code
  MaxPanics   \* bound: ends of the program

ASSUME WebMentionAssumption ==
  /\ NoMention \notin Mention
  /\ Capacity \in Nat \ {0} /\ MaxPanics \in Nat

Box == {"inbox", "outbox"}

VARIABLES
  queue,    \* the channels
  loop,     \* "armed": its timer is or was running; "busy"; or "spent" for good
  working,  \* what each loop is processing
  handled,  \* history: what was processed, successfully or not
  panics

webMentionVars == <<queue, loop, working, handled, panics>>

Queued(b) == {queue[b][i] : i \in DOMAIN queue[b]}

WebMentionInit ==
  /\ queue = [b \in Box |-> << >>]
  /\ loop = [b \in Box |-> "armed"]
  /\ working = [b \in Box |-> NoMention]
  /\ handled = [b \in Box |-> {}]
  /\ panics = 0

\* Mutant: a channel that takes everything.
SendAnyway(b, m) ==
  /\ queue' = [queue EXCEPT ![b] = Append(@, m)]
  /\ UNCHANGED <<loop, working, handled, panics>>

\* The send on a channel, which blocks its handler while the channel is full.
Send(b, m) ==
  /\ Len(queue[b]) < Capacity
  /\ queue' = [queue EXCEPT ![b] = Append(@, m)]
  /\ UNCHANGED <<loop, working, handled, panics>>

SendNotification(m) == Send("outbox", m)

\* Another pod's request, answered with "202 Accepted".
WebMentionEndpoint(m) ==
  /\ m \notin Queued("inbox") \cup {working["inbox"]} \cup handled["inbox"]
  /\ Send("inbox", m)

\* The timer has fired, and processInbox or processOutbox receives.
Take(b) ==
  /\ loop[b] = "armed" /\ queue[b] # << >>
  /\ working' = [working EXCEPT ![b] = Head(queue[b])]
  /\ queue' = [queue EXCEPT ![b] = Tail(@)]
  /\ loop' = [loop EXCEPT ![b] = "busy"]
  /\ UNCHANGED <<handled, panics>>

\* processInbox or processOutbox returns, and the loop waits for the timer.
Processed(b) ==
  /\ loop[b] = "busy"
  /\ handled' = [handled EXCEPT ![b] = @ \cup {working[b]}]
  /\ working' = [working EXCEPT ![b] = NoMention]
  /\ loop' = [loop EXCEPT ![b] = "spent"]
  /\ UNCHANGED <<queue, panics>>

\* No response at all: res.Status dereferences nil.  The channels and the
\* timers are made anew when the pod is started again.
Panic(b) ==
  /\ loop[b] = "busy" /\ panics < MaxPanics
  /\ panics' = panics + 1
  /\ queue' = [c \in Box |-> << >>]
  /\ loop' = [c \in Box |-> "armed"]
  /\ working' = [c \in Box |-> NoMention]
  /\ UNCHANGED handled

Loops == \E b \in Box : Take(b) \/ Processed(b)

WebMentionTypeOK ==
  /\ \A b \in Box : Queued(b) \subseteq Mention /\ Len(queue[b]) <= Capacity
  /\ loop \in [Box -> {"armed", "busy", "spent"}]
  /\ working \in [Box -> Mention \cup {NoMention}]
  /\ \A b \in Box : loop[b] = "busy" <=> working[b] # NoMention
  /\ handled \in [Box -> SUBSET Mention]
  /\ panics \in 0..MaxPanics
=============================================================================
