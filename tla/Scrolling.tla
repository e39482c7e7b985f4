------------------------------- MODULE Scrolling -------------------------------
(***************************************************************************)
(* How the message feed follows its end (MessageFeed.tsx): isAtBottom is   *)
(* set by the scroll handler and read by the effects that scroll.  The     *)
(* browser is external: a smooth scroll heads for where the end was when   *)
(* it began, step by step; a scroll event follows a move of the view, some *)
(* time later; content that grows, or a window that is resized, moves      *)
(* nothing and tells nobody, unless the view has to be clamped.            *)
(* Positions are multiples of half the 80 pixels that count as the bottom. *)
(***************************************************************************)
EXTENDS Integers

CONSTANT MaxScroll   \* bound: how far the content exceeds the view

ASSUME ScrollAssumption == MaxScroll \in Nat

VARIABLES scrollEnd,     \* scrollHeight - clientHeight
          scrollTop,
          target,        \* where a smooth scroll heads, NoTarget when none is under way
          scrollEvent,   \* the view has moved and the handler does not know
          isAtBottom,
          reader         \* for the properties only: whether the reader follows the
                         \* end, has scrolled away from it, or was left behind

scrollVars == <<scrollEnd, scrollTop, target, scrollEvent, isAtBottom, reader>>

NoTarget == -1
NearBottom == scrollEnd - scrollTop < 2

ScrollingInit ==
  /\ scrollEnd = 0 /\ scrollTop = 0
  /\ target = NoTarget /\ scrollEvent = FALSE
  /\ isAtBottom = TRUE
  /\ reader = "follows"

(* What the browser does when the content gets another height. *)
Layout(end) ==
  /\ scrollEnd' = end
  /\ scrollTop' = IF scrollTop > end THEN end ELSE scrollTop
  /\ scrollEvent' = (scrollEvent \/ scrollTop' # scrollTop)

(* bottomRef.current.scrollIntoView({ behavior: 'smooth' }) *)
ScrollToBottom == target' = IF scrollTop' = scrollEnd' THEN NoTarget ELSE scrollEnd'

(* Slip: the effect depends on isAtBottom only. *)
FollowEffectOnFlag == target' = IF target > scrollEnd' THEN scrollEnd' ELSE target

(* The effect on [feed, isAtBottom], when the feed has changed. *)
FollowEffect == IF isAtBottom THEN ScrollToBottom
                ELSE target' = IF target > scrollEnd' THEN scrollEnd' ELSE target

(* The feed has changed. *)
FeedRenders(end) ==
  /\ Layout(end)
  /\ FollowEffect
  /\ reader' = IF isAtBottom THEN "follows" ELSE reader
  /\ UNCHANGED isAtBottom

(* The window, the panes beside the feed or the zoom: both heights change, *)
(* no effect runs.  A reader at rest who is not near the end any more is   *)
(* left behind.                                                            *)
ResizeView(end) ==
  /\ end # scrollEnd
  /\ Layout(end)
  /\ target' = IF target > scrollEnd' THEN scrollEnd' ELSE target
  /\ reader' = IF reader = "follows" /\ target' = NoTarget /\ ~scrollEvent' /\ ~NearBottom'
               THEN "behind" ELSE reader
  /\ UNCHANGED isAtBottom

(* Another conversation: both effects, the instant scroll last.  If the    *)
(* view need not move for it, the handler does not learn that it is at the *)
(* end.                                                                    *)
ConversationRenders(end) ==
  /\ scrollEnd' = end /\ scrollTop' = end
  /\ target' = NoTarget
  /\ scrollEvent' = (scrollEvent \/ scrollTop' # scrollTop)
  /\ reader' = IF isAtBottom \/ scrollEvent' THEN "follows" ELSE "behind"
  /\ UNCHANGED isAtBottom

(* The reader scrolls, which ends a smooth scroll. *)
ReaderScrolls(top) ==
  /\ top # scrollTop
  /\ scrollTop' = top /\ target' = NoTarget /\ scrollEvent' = TRUE
  /\ UNCHANGED <<scrollEnd, isAtBottom>>
  /\ reader' = IF NearBottom' THEN "follows" ELSE "away"

(* A step of a smooth scroll *)
SmoothStep ==
  /\ target # NoTarget
  /\ scrollTop' = IF target > scrollTop THEN scrollTop + 1
                  ELSE IF target < scrollTop THEN scrollTop - 1 ELSE scrollTop
  /\ target' = IF scrollTop' = target THEN NoTarget ELSE target
  /\ scrollEvent' = TRUE
  /\ UNCHANGED <<scrollEnd, isAtBottom, reader>>

(* handleScroll, and the effect on isAtBottom when it has become true.  It *)
(* takes a reader for one who has scrolled away when a smooth scroll is    *)
(* still on its way, or when the content has grown since the view moved.   *)
HandleScroll ==
  /\ scrollEvent
  /\ scrollEvent' = FALSE
  /\ isAtBottom' = NearBottom
  /\ reader' = IF NearBottom THEN "follows" ELSE IF reader = "follows" THEN "behind" ELSE reader
  /\ UNCHANGED <<scrollEnd, scrollTop>>
  /\ IF ~isAtBottom /\ NearBottom THEN ScrollToBottom ELSE UNCHANGED target

ScrollingNext ==
  \/ \E end \in 0 .. MaxScroll : FeedRenders(end) \/ ConversationRenders(end) \/ ResizeView(end)
  \/ \E top \in 0 .. scrollEnd : ReaderScrolls(top)
  \/ SmoothStep \/ HandleScroll

-----------------------------------------------------------------------------
(* Every way a reader who went to the end, or never left it, can lose it:  *)
(* taken for one who scrolled away (HandleScroll), a resize at rest        *)
(* (ResizeView), a conversation whose end is where the view stood already  *)
(* (ConversationRenders).  Otherwise, when nothing moves and no event is   *)
(* pending, such a reader sees the end and will be taken along; and one    *)
(* whom a resize has left is taken back by the next change of the feed.    *)
FollowerSeesEnd ==
  (target = NoTarget /\ ~scrollEvent /\ reader = "follows") => NearBottom /\ isAtBottom
================================================================================
