------------------------------ MODULE Transients ------------------------------
(***************************************************************************)
(* What the observer UI shows for a while and then takes back by a timer:  *)
(* the flash of a counter that grew (useIncrementFlash, in MemberList and  *)
(* ConversationHeader), the caret that fades after a message has stopped   *)
(* streaming, and the "copied" mark of a message (MessageContent).  An     *)
(* effect's cleanup runs before the effect of the next change, as React    *)
(* runs them, in the step of that change.                                  *)
(***************************************************************************)
EXTENDS Integers

CONSTANTS MaxValue,   \* bound: values of a counter
          MaxCopies   \* bound: copies whose timers are pending

VARIABLES count, flashing, flashTimer,             \* useIncrementFlash(count)
          streaming, content, fading, fadeTimer,   \* MessageContent
          copied, copyTimers, clipboard

flashVars == <<count, flashing, flashTimer>>
caretVars == <<streaming, content, fading, fadeTimer>>
copyVars == <<copied, copyTimers, clipboard>>
transientVars == <<flashVars, caretVars, copyVars>>

Nothing == -1   \* nothing was copied yet

TransientsInit ==
  /\ count \in 0 .. MaxValue /\ flashing = FALSE /\ flashTimer = FALSE
  /\ streaming \in BOOLEAN /\ content = 0 /\ fading = FALSE /\ fadeTimer = FALSE
  /\ copied = FALSE /\ copyTimers = 0 /\ clipboard = Nothing

(* useIncrementFlash gets another value.  The cleanup of an earlier        *)
(* increase clears its timer; only another increase sets one.              *)
IncrementFlash(value) ==
  /\ value # count
  /\ count' = value
  /\ flashing' = (flashing \/ value > count)
  /\ flashTimer' = (value > count)
  /\ UNCHANGED <<caretVars, copyVars>>

FlashEnds ==
  /\ flashTimer
  /\ flashing' = FALSE /\ flashTimer' = FALSE
  /\ UNCHANGED <<count, caretVars, copyVars>>

-----------------------------------------------------------------------------
(* Slip: the effect depends on the whole message. *)
CaretEffectAlways(now, text) ==
  /\ fading' = (fading \/ (streaming /\ ~now))
  /\ fadeTimer' = (streaming /\ ~now)

(* The effect on [message.isStreaming]: run only when that has changed.    *)
CaretEffect(now, text) ==
  IF now = streaming
  THEN UNCHANGED <<fading, fadeTimer>>
  ELSE /\ fading' = (fading \/ ~now)
       /\ fadeTimer' = ~now

(* MessageContent is rendered with a new version of its message: text has  *)
(* arrived, it has ended, or a replay of the stream has started it again.  *)
MessageUpdate(now, text) ==
  /\ <<now, text>> # <<streaming, content>>
  /\ CaretEffect(now, text)
  /\ streaming' = now /\ content' = text
  /\ UNCHANGED <<flashVars, copyVars>>

FadeEnds ==
  /\ fadeTimer
  /\ fading' = FALSE /\ fadeTimer' = FALSE
  /\ UNCHANGED <<streaming, content, flashVars, copyVars>>

(* handleCopy: every click sets a timer of its own. *)
HandleCopy ==
  /\ copyTimers < MaxCopies
  /\ clipboard' = content
  /\ copied' = TRUE
  /\ copyTimers' = copyTimers + 1
  /\ UNCHANGED <<flashVars, caretVars>>

CopyEnds ==
  /\ copyTimers > 0
  /\ copied' = FALSE
  /\ copyTimers' = copyTimers - 1
  /\ UNCHANGED <<clipboard, flashVars, caretVars>>

TransientsNext ==
  \/ \E value \in 0 .. MaxValue : IncrementFlash(value)
  \/ FlashEnds
  \/ \E now \in BOOLEAN, text \in 0 .. MaxValue : MessageUpdate(now, text)
  \/ FadeEnds
  \/ HandleCopy \/ CopyEnds

-----------------------------------------------------------------------------
ShowCaret == streaming \/ fading

(* Whatever is shown for a while has a pending timer that takes it back:   *)
(* the caret of a message that no longer streams, however often the        *)
(* message is updated or streams again, and the "copied" mark.             *)
TransientsTimed == /\ (ShowCaret /\ ~streaming) => fadeTimer
                   /\ copied => copyTimers > 0

(* "Returns `true` for `durationMs` after `value` increases"               *)
(* (MemberList.tsx:13, ConversationHeader.tsx:11): a flash has a pending   *)
(* timer that ends it.  TLC refutes it: a decrease within the duration     *)
(* clears the timer and leaves the flash on.                               *)
FlashTimed == flashing => flashTimer
===============================================================================
