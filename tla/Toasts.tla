-------------------------------- MODULE Toasts --------------------------------
(***************************************************************************)
(* hooks/use-toast.ts and the Toaster: a store outside React (memoryState, *)
(* toastTimeouts, listeners) that components subscribe to.  A component    *)
(* that calls useToast renders first and subscribes later, when its effect *)
(* runs; effects of other components, which may dispatch, run in between.  *)
(* Every dispatch makes a subscriber render again; after that commit its   *)
(* effect takes it out of the listeners and puts it back at their end.     *)
(***************************************************************************)
EXTENDS Integers, Sequences, SequencesExt

CONSTANTS Users,          \* components that call useToast
          TOAST_LIMIT,    \* 1 in the code
          MaxToasts       \* bound: toasts ever made

ASSUME ToastAssumption == TOAST_LIMIT \in Nat

VARIABLES memory,         \* memoryState.toasts, newest first
          lastId,         \* count, of genId
          toastTimeouts,  \* ids with a pending remove timer
          listeners,      \* the users whose setState is in listeners
          user            \* user[u]: where u is, whether its effect is still to run
                          \* again, and the toasts it last rendered

toastVars == <<memory, lastId, toastTimeouts, listeners, user>>

(* A toast: closes says that its onOpenChange is the one toast() gave it;  *)
(* dismissed, that a DISMISS_TOAST has met it (for the properties only).   *)
NewToast(id) == [id |-> id, open |-> TRUE, closes |-> TRUE, dismissed |-> FALSE]
Dismissed(t) == [t EXCEPT !.open = FALSE, !.dismissed = TRUE]
Out == [at |-> "out", effect |-> FALSE, toasts |-> <<>>]

ToastsInit ==
  /\ memory = <<>> /\ lastId = 0 /\ toastTimeouts = {} /\ listeners = <<>>
  /\ user = [u \in Users |-> Out]

MapToasts(f(_)) == [i \in DOMAIN memory |-> f(memory[i])]

(* dispatch: the new state goes to every listener's setState. *)
Dispatch(toasts) ==
  /\ memory' = toasts
  /\ user' = [u \in Users |-> IF Contains(listeners, u) THEN [user[u] EXCEPT !.at = "notified"]
                              ELSE user[u]]
  /\ UNCHANGED listeners

-----------------------------------------------------------------------------
(* toast(): ADD_TOAST *)
AddToast ==
  /\ lastId < MaxToasts
  /\ lastId' = lastId + 1
  /\ LET all == <<NewToast(lastId + 1)>> \o memory
     IN Dispatch(SubSeq(all, 1, IF Len(all) < TOAST_LIMIT THEN Len(all) ELSE TOAST_LIMIT))
  /\ UNCHANGED toastTimeouts

(* update() of the handle that toast() returned: UPDATE_TOAST, of a toast  *)
(* that may be gone.  It merges any field: what is shown, which no other   *)
(* step reads, and also open and onOpenChange.                             *)
UpdateToast(id) ==
  /\ \E open, keeps \in BOOLEAN :
       Dispatch(MapToasts(LAMBDA t : IF t.id = id
                                     THEN [t EXCEPT !.open = open, !.closes = keeps /\ @]
                                     ELSE t))
  /\ UNCHANGED <<lastId, toastTimeouts>>

(* A toast that is queued already keeps its timer. *)
AddToRemoveQueue(ids) == toastTimeouts' = toastTimeouts \cup ids

(* dismiss(id), the handle's or the hook's: DISMISS_TOAST *)
DismissToast(id) ==
  /\ AddToRemoveQueue({id})
  /\ Dispatch(MapToasts(LAMBDA t : IF t.id = id THEN Dismissed(t) ELSE t))
  /\ UNCHANGED lastId

(* dismiss() without an id *)
DismissAll ==
  /\ AddToRemoveQueue({memory[i].id : i \in DOMAIN memory})
  /\ Dispatch(MapToasts(LAMBDA t : Dismissed(t)))
  /\ UNCHANGED lastId

(* The close button of a toast that the Toaster shows: Radix calls its     *)
(* onOpenChange(false); one that an update put there is the caller's own.  *)
ToastClose(u) ==
  \E i \in DOMAIN user[u].toasts :
    LET t == user[u].toasts[i] IN t.open /\ t.closes /\ DismissToast(t.id)

(* toasts.filter: the toasts at the positions that are kept, in order (one *)
(* sequence; without the recursion of SelectSeq, which no proof unfolds).  *)
Filtered(kept) ==
  {[i \in DOMAIN at |-> memory[at[i]]] :
     at \in {f \in [1 .. Cardinality(kept) -> kept] : \A i, j \in DOMAIN f : i < j => f[i] < f[j]}}

(* A remove timer fires: REMOVE_TOAST *)
RemoveToast(id) ==
  /\ id \in toastTimeouts
  /\ toastTimeouts' = toastTimeouts \ {id}
  /\ \E toasts \in Filtered({i \in DOMAIN memory : memory[i].id # id}) : Dispatch(toasts)
  /\ UNCHANGED lastId

-----------------------------------------------------------------------------
(* useToast renders for the first time: useState(memoryState). *)
MountUser(u) ==
  /\ user[u].at = "out"
  /\ user' = [user EXCEPT ![u] = [at |-> "mounted", effect |-> FALSE, toasts |-> memory]]
  /\ UNCHANGED <<memory, lastId, toastTimeouts, listeners>>

(* Its effect runs: listeners.push(setState). *)
Subscribe(u) ==
  /\ user[u].at = "mounted"
  /\ listeners' = Append(listeners, u)
  /\ user' = [user EXCEPT ![u].at = "joined"]
  /\ UNCHANGED <<memory, lastId, toastTimeouts>>

(* Slip: splice without a count. *)
UnsubscribedRest(u) ==
  IF Contains(listeners, u)
  THEN SubSeq(listeners, 1, SelectInSeq(listeners, LAMBDA v : v = u) - 1)
  ELSE listeners

(* The effect's cleanup: the first place of setState is cut out. *)
Unsubscribed(u) == RemoveFirst(listeners, u)

(* A user that was notified renders the state of the last dispatch.  React *)
(* runs what is left of the effects of one render before the next.         *)
RenderUser(u) ==
  /\ user[u].at = "notified" /\ ~user[u].effect
  /\ user' = [user EXCEPT ![u] = [at |-> "current", effect |-> TRUE, toasts |-> memory]]
  /\ UNCHANGED <<memory, lastId, toastTimeouts, listeners>>

(* After the commit: the cleanup of the old effect and the new one, in one *)
(* go.  Until then the old subscription hears what is dispatched.          *)
Resubscribe(u) ==
  /\ user[u].effect
  /\ listeners' = Append(Unsubscribed(u), u)
  /\ user' = [user EXCEPT ![u].effect = FALSE]
  /\ UNCHANGED <<memory, lastId, toastTimeouts>>

UnmountUser(u) ==
  /\ user[u].at # "out"
  /\ user' = [user EXCEPT ![u] = Out]
  /\ listeners' = IF user[u].at = "mounted" THEN listeners ELSE Unsubscribed(u)
  /\ UNCHANGED <<memory, lastId, toastTimeouts>>

(* What the store does, and what its users do. *)
ToastStoreNext ==
  \/ AddToast \/ DismissAll
  \/ \E id \in 1 .. lastId : UpdateToast(id) \/ DismissToast(id)
  \/ \E id \in toastTimeouts : RemoveToast(id)
UseToastNext == \E u \in Users : MountUser(u) \/ Subscribe(u) \/ UnmountUser(u)
ToasterNext == \E u \in Users : RenderUser(u) \/ Resubscribe(u)
ToastCloseNext == \E u \in Users : ToastClose(u)

-----------------------------------------------------------------------------
(* Every component that has subscribed is in listeners once, and nobody    *)
(* else: no dispatch is missed because another component went away, and    *)
(* none reaches a component that is gone.  One that has rendered since it  *)
(* subscribed shows the toasts of the store, or has been told to render    *)
(* again: re-subscribing after each render misses nothing.  A toast of the *)
(* store has a pending timer that removes it exactly when its handle, the  *)
(* hook or its button has dismissed it, whatever was updated since.        *)
ToastsSound ==
  /\ \A u \in Users :
       /\ user[u].at \in {"joined", "notified", "current"} <=> Contains(listeners, u)
       /\ user[u].at = "current" => user[u].toasts = memory
  /\ IsInjective(listeners)
  /\ \A i \in DOMAIN memory : memory[i].dismissed <=> memory[i].id \in toastTimeouts
===============================================================================
