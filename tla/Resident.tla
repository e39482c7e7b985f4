-------------------------------- MODULE Resident --------------------------------
(***************************************************************************)
(* The resident agent in one conversation (internal/agent): invites that   *)
(* reach it through a channel, the listener goroutine with its entry in    *)
(* listeners, the single response at a time, and the leave that waits for  *)
(* the listener before it writes agent_left.  A response's calls to S2 and *)
(* Postgres are those of a streamed write, which MessageWrite models; here *)
(* it starts, takes its prompt and ends.                                   *)
(***************************************************************************)
EXTENDS Integers, FiniteSets

CONSTANTS InviteBuffer,   \* inviteChanBuffer (100 in the code)
          MaxInvites,     \* bound: invites whose notification is on its way
          MaxListeners,   \* bound: listeners ever started
          MaxHeard        \* bound: messages of other agents

ASSUME ResidentAssumption == {InviteBuffer, MaxInvites, MaxListeners, MaxHeard} \subseteq Nat

VARIABLES server,      \* the resident: starting | up | down (Shutdown has begun)
          isMember,    \* its members row in the conversation
          invites,     \* invites committed and not yet notified
          inviteCh,    \* notifications in the channel
          started,     \* listeners started so far: 1 .. started
          entry,       \* listeners[convID], NoListener if there is none
          listener,    \* listener[n]: where its goroutine is, and whether it is cancelled
          response,    \* the response goroutine: whose context it has, and where it is
          heard,       \* messages of other agents folded into history
          prompted,    \* how many of them the last prompt had
          leaving      \* the leave of the resident: where it is, and whom it waits for

residentVars == <<server, isMember, invites, inviteCh, started, entry, listener, response,
                  heard, prompted, leaving>>

NoListener == 0
NoResponse == [by |-> NoListener, at |-> "none"]
NotLeaving == [at |-> "none", waits |-> NoListener]
Ids == 1 .. MaxListeners

ResidentInit ==
  /\ server = "starting"
  /\ isMember \in BOOLEAN
  /\ invites = 0 /\ inviteCh = 0
  /\ started = 0 /\ entry = NoListener
  /\ listener = [n \in Ids |-> [at |-> "none", cancelled |-> FALSE]]
  /\ response = NoResponse
  /\ heard = 0 /\ prompted = 0
  /\ leaving = NotLeaving

-----------------------------------------------------------------------------
(* startListening: nothing if there is an entry; the context is a child of *)
(* the root's, cancelled from the start when that is.                      *)
StartListening ==
  IF entry # NoListener THEN UNCHANGED <<started, entry, listener>>
  ELSE /\ started < MaxListeners
       /\ started' = started + 1 /\ entry' = started + 1
       /\ listener' = [listener EXCEPT ![started + 1] =
                         [at |-> "listening", cancelled |-> server = "down"]]

(* Start: reconcileConversations, which may fail, then the discovery loop. *)
Start ==
  /\ server = "starting"
  /\ server' = "up"
  /\ \/ isMember /\ StartListening
     \/ UNCHANGED <<started, entry, listener>>
  /\ UNCHANGED <<isMember, invites, inviteCh, response, heard, prompted, leaving>>

(* InviteAgent: the row is inserted; the notification follows. *)
Invite ==
  /\ server # "starting" /\ ~isMember
  /\ invites < MaxInvites
  /\ isMember' = TRUE
  /\ invites' = invites + 1
  /\ UNCHANGED <<server, inviteCh, started, entry, listener, response, heard, prompted, leaving>>

(* NotifyInvite: dropped when the resident is not available or the channel *)
(* is full, of this or of other conversations; and not called when the     *)
(* append of agent_joined fails.                                           *)
NotifyInvite ==
  /\ invites > 0
  /\ invites' = invites - 1
  /\ \/ server = "up" /\ inviteCh < InviteBuffer /\ inviteCh' = inviteCh + 1
     \/ UNCHANGED inviteCh
  /\ UNCHANGED <<server, isMember, started, entry, listener, response, heard, prompted, leaving>>

(* discoveryLoop: it may still take an invite when the root is cancelled. *)
DiscoveryLoop ==
  /\ inviteCh > 0
  /\ inviteCh' = inviteCh - 1
  /\ StartListening
  /\ UNCHANGED <<server, isMember, invites, response, heard, prompted, leaving>>

(* Shutdown: every listener's context is cancelled with the root. *)
Shutdown ==
  /\ server = "up"
  /\ server' = "down"
  /\ listener' = [n \in Ids |-> [listener[n] EXCEPT !.cancelled = TRUE]]
  /\ UNCHANGED <<isMember, invites, inviteCh, started, entry, response, heard, prompted, leaving>>

-----------------------------------------------------------------------------
(* onEvent of a message_end by another agent: history, then                *)
(* triggerResponse, which does nothing while a response runs.  An event    *)
(* that was read before the cancellation is still handled.                 *)
OnMessageEnd(n) ==
  /\ listener[n].at = "listening"
  /\ heard < MaxHeard
  /\ heard' = heard + 1
  /\ response' = IF response = NoResponse THEN [by |-> n, at |-> "waiting"] ELSE response
  /\ UNCHANGED <<server, isMember, invites, inviteCh, started, entry, listener, prompted, leaving>>

(* respond: a Claude slot and the snapshot of history, unless the context  *)
(* is cancelled; then the claim.                                           *)
Respond ==
  /\ response.at = "waiting"
  /\ \/ /\ ~listener[response.by].cancelled
        /\ prompted' = heard
        /\ response' = [response EXCEPT !.at = "writing"]
     \/ /\ listener[response.by].cancelled
        /\ response' = NoResponse
        /\ UNCHANGED prompted
  /\ UNCHANGED <<server, isMember, invites, inviteCh, started, entry, listener, heard, leaving>>

(* message_end, or message_abort with its bookkeeping, and the slot is     *)
(* given back.                                                             *)
ResponseEnds ==
  /\ response.at = "writing"
  /\ response' = NoResponse
  /\ UNCHANGED <<server, isMember, invites, inviteCh, started, entry, listener, heard, prompted,
                 leaving>>

(* listen returns and its retry loop sees the cancellation.  (An error     *)
(* without one is retried, and changes nothing here.)                      *)
ListenerCancelled(n) ==
  /\ listener[n].at = "listening" /\ listener[n].cancelled
  /\ listener' = [listener EXCEPT ![n].at = "draining"]
  /\ UNCHANGED <<server, isMember, invites, inviteCh, started, entry, response, heard, prompted,
                 leaving>>

(* Slip: the response is not waited for. *)
DrainedAnyway(n) == TRUE

(* state.responseWg.Wait() *)
Drained(n) == response = NoResponse

(* The deferred function up to close(done); the cursor is flushed. *)
CloseDone(n) ==
  /\ listener[n].at = "draining"
  /\ Drained(n)
  /\ listener' = [listener EXCEPT ![n].at = "closed"]
  /\ UNCHANGED <<server, isMember, invites, inviteCh, started, entry, response, heard, prompted,
                 leaving>>

(* delete(a.listeners, convID), after close(done) *)
RemoveEntry(n) ==
  /\ listener[n].at = "closed"
  /\ listener' = [listener EXCEPT ![n].at = "gone"]
  /\ entry' = NoListener
  /\ UNCHANGED <<server, isMember, invites, inviteCh, started, response, heard, prompted, leaving>>

-----------------------------------------------------------------------------
(* LeaveConversation by the resident: NotifyLeave cancels the listener, if *)
(* there is one.                                                           *)
NotifyLeave ==
  /\ isMember /\ leaving.at = "none" /\ server = "up"
  /\ leaving' = [at |-> "waiting", waits |-> entry]
  /\ listener' = IF entry = NoListener THEN listener
                 ELSE [listener EXCEPT ![entry].cancelled = TRUE]
  /\ UNCHANGED <<server, isMember, invites, inviteCh, started, entry, response, heard, prompted>>

DoneClosed == {NoListener} \cup {n \in Ids : listener[n].at \in {"closed", "gone"}}

(* WaitFor: done is closed, or 5 s are over. *)
LeaveGoesOn ==
  /\ leaving.at = "waiting"
  /\ \/ leaving.waits \in DoneClosed /\ leaving' = [leaving EXCEPT !.at = "drained"]
     \/ leaving' = [leaving EXCEPT !.at = "timed_out"]
  /\ UNCHANGED <<server, isMember, invites, inviteCh, started, entry, listener, response, heard,
                 prompted>>

(* RemoveMember and agent_left, or a refusal *)
ResidentLeft ==
  /\ leaving.at \in {"drained", "timed_out"}
  /\ isMember' \in {FALSE, isMember}
  /\ leaving' = NotLeaving
  /\ UNCHANGED <<server, invites, inviteCh, started, entry, listener, response, heard, prompted>>

ResidentNext ==
  \/ Start \/ Invite \/ NotifyInvite \/ DiscoveryLoop \/ Shutdown
  \/ Respond \/ ResponseEnds
  \/ \E n \in Ids : OnMessageEnd(n) \/ ListenerCancelled(n) \/ CloseDone(n) \/ RemoveEntry(n)
  \/ NotifyLeave \/ LeaveGoesOn \/ ResidentLeft

-----------------------------------------------------------------------------
Active == {n \in Ids : listener[n].at \in {"listening", "draining", "closed"}}

(* At most one goroutine listens to the conversation, the one that has the *)
(* entry, so a message triggers one response at most, however invites,     *)
(* leaves and shutdown overlap; a response never outlives the listener     *)
(* that started it, so a leave that was told that the listener is done     *)
(* writes agent_left after the response's last record.                     *)
ResidentSound ==
  /\ \A n \in Active : n = entry
  /\ response # NoResponse => listener[response.by].at \in {"listening", "draining"}
  /\ leaving.at = "drained" /\ leaving.waits # NoListener => response.by # leaving.waits

(* "Remove the listener entry so a re-invite creates a fresh goroutine"    *)
(* (listener.go:96): when every notification has been handled, a member    *)
(* has a listener that has not been told to end.  TLC refutes it: a leave  *)
(* that is refused (the last member) has cancelled the listener before; a  *)
(* re-invite may find the entry of a listener whose done is closed; an     *)
(* invite may find a full channel, or fail after its row was inserted.     *)
MemberListens ==
  (server = "up" /\ isMember /\ invites = 0 /\ inviteCh = 0 /\ leaving = NotLeaving /\ started > 0)
    => \E n \in Active : ~listener[n].cancelled

(* "the currently-running response will re-check the history after         *)
(* message_end and naturally pick up the newer message" (respond.go:38):   *)
(* when no response runs, every message heard was in a prompt.  TLC        *)
(* refutes it: respond takes its snapshot once.                            *)
HeardIsPrompted ==
  (server = "up" /\ response = NoResponse /\ entry # NoListener /\ ~listener[entry].cancelled)
    => prompted = heard
=================================================================================
