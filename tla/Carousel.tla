------------------------------- MODULE Carousel -------------------------------
(***************************************************************************)
(* components/ui/carousel.tsx over Embla, which keeps the position itself  *)
(* and tells of it by events.  The buttons are disabled by two flags that  *)
(* Carousel copies out of Embla when its effect runs and at each event it  *)
(* listens to; Embla may be made anew (another api) with its viewport, and *)
(* initialises itself again when slides or options change.                 *)
(***************************************************************************)
EXTENDS Integers

CONSTANT MaxSlides   \* bound: slides

VARIABLES slides, snap, loops,   \* Embla: snap points, the selected one, the loop option
          api,                   \* Embla is there: none | new (effects are to run) | used
          heard,                 \* the events of it that onSelect is called for
          canScrollPrev, canScrollNext,
          given                  \* setApi(api) has been called

emblaVars == <<slides, snap, loops>>
carouselVars == <<emblaVars, api, heard, canScrollPrev, canScrollNext, given>>

CarouselInit ==
  /\ slides \in 0 .. MaxSlides /\ snap = 0 /\ loops \in BOOLEAN
  /\ api = "none" /\ heard = {}
  /\ canScrollPrev = FALSE /\ canScrollNext = FALSE /\ given = FALSE

(* Embla's own: the snap point d further, kept in range or wrapped, and    *)
(* whether there is another one that way.                                  *)
Target(s, n, loop, d) ==
  LET t == s + d
  IN IF n = 0 THEN 0
     ELSE IF loop THEN t % n
     ELSE IF t < 0 THEN 0 ELSE IF t > n - 1 THEN n - 1 ELSE t
EmblaCan(s, n, loop, d) == Target(s, n, loop, d) # s

(* onSelect(api) *)
OnSelect == /\ canScrollPrev' = EmblaCan(snap', slides', loops', -1)
            /\ canScrollNext' = EmblaCan(snap', slides', loops', 1)

(* Embla emits an event. *)
Emit(event) == IF event \in heard THEN OnSelect
               ELSE UNCHANGED <<canScrollPrev, canScrollNext>>

-----------------------------------------------------------------------------
(* useEmblaCarousel has a viewport and makes Embla, or drops the one it    *)
(* has (destroyed, its listeners with it) for another.                     *)
EmblaMade ==
  /\ api' = "new" /\ heard' = {}
  /\ snap' = 0
  /\ UNCHANGED <<slides, loops, canScrollPrev, canScrollNext, given>>

(* Slip: only "select" is listened to. *)
ListenToSelect(events) == heard' = events \ {"reInit"}

(* api.on("reInit"), api.on("select") *)
ListenTo(events) == heard' = events

(* The two effects on [api]: the parent gets it; onSelect(api), then the   *)
(* subscriptions.                                                          *)
ApiEffects ==
  /\ api = "new"
  /\ api' = "used" /\ given' = TRUE
  /\ UNCHANGED emblaVars
  /\ OnSelect
  /\ ListenTo({"reInit", "select"})

(* scrollPrev and scrollNext, of a button that is enabled or of an arrow   *)
(* key, which asks nobody; and scrollTo by the parent.                     *)
ScrollBy(d) ==
  /\ api # "none"
  /\ snap' = Target(snap, slides, loops, d)
  /\ snap' # snap
  /\ UNCHANGED <<slides, loops, api, heard, given>>
  /\ Emit("select")

CarouselPrevious == canScrollPrev /\ ScrollBy(-1)
CarouselNext == canScrollNext /\ ScrollBy(1)
CarouselKeyDown == \E d \in {-1, 1} : ScrollBy(d)
ParentScrollsTo(s) == given /\ s \in 0 .. slides - 1 /\ s # snap /\ ScrollBy(s - snap)

(* Slides come or go, or the options change: Embla initialises itself. *)
ReInit(n, loop) ==
  /\ <<n, loop>> # <<slides, loops>>
  /\ slides' = n /\ loops' = loop
  /\ snap' = IF api = "none" THEN 0 ELSE Target(snap, n, loop, 0)
  /\ UNCHANGED <<api, heard, given>>
  /\ IF api = "none" THEN UNCHANGED <<canScrollPrev, canScrollNext>> ELSE Emit("reInit")

CarouselButtonsNext == CarouselPrevious \/ CarouselNext
CarouselsNext ==
  \/ EmblaMade \/ ApiEffects \/ CarouselKeyDown
  \/ \E s \in 0 .. MaxSlides : ParentScrollsTo(s)
  \/ \E n \in 0 .. MaxSlides, loop \in BOOLEAN : ReInit(n, loop)

-----------------------------------------------------------------------------
(* Once the effects have run for the Embla there is, a button is enabled   *)
(* exactly when it would move the carousel, whatever slides have come and  *)
(* gone and whoever has scrolled.                                          *)
ButtonsTrue ==
  api = "used" => /\ canScrollPrev = EmblaCan(snap, slides, loops, -1)
                  /\ canScrollNext = EmblaCan(snap, slides, loops, 1)
===============================================================================
