------------------------------- MODULE Sidebar -------------------------------
(***************************************************************************)
(* components/ui/sidebar.tsx with useIsMobile: one provider, one Sidebar,  *)
(* its trigger and rail, its menu.  The provider owns the open state or a  *)
(* parent does (openProp with onOpenChange), and the parent may answer     *)
(* late or not at all.  toggleSidebar is a closure over the open state and *)
(* the layout of the render that made it (useCallback); the keyboard       *)
(* listener gets a new one when its effect runs, after the render.         *)
(***************************************************************************)
EXTENDS Integers

VARIABLES controlled,   \* the parent passes open and onOpenChange
          collapsible,  \* the prop of Sidebar
          narrow,       \* the window is below MOBILE_BREAKPOINT
          isMobile,     \* useIsMobile()
          open,         \* _open, or openProp
          asked,        \* what the parent was asked for and has not answered: {} or {it}
          openMobile,
          cookie,       \* sidebar_state: {} before it is written
          toggle,       \* the memoized toggleSidebar, as what it captured
          keyToggle     \* the one that the keydown listener calls

layoutVars == <<controlled, collapsible>>
sidebarVars == <<layoutVars, narrow, isMobile, open, asked, openMobile, cookie, toggle, keyToggle>>

Captured(m, o) == [isMobile |-> m, open |-> o]

(* The first render, before the effects: isMobile is undefined, so false.  *)
SidebarInit ==
  /\ controlled \in BOOLEAN /\ collapsible \in {"offcanvas", "icon", "none"}
  /\ narrow \in BOOLEAN /\ isMobile = FALSE
  /\ open \in BOOLEAN /\ asked = {} /\ openMobile = FALSE
  /\ cookie = {}
  /\ toggle = Captured(FALSE, open) /\ keyToggle = toggle

(* Slip: isMobile is missing in the dependencies of toggleSidebar. *)
MemoizedStale(m, o) == IF o = toggle.open THEN toggle ELSE Captured(m, o)

(* useCallback: a new closure when isMobile or setOpen, hence open, is new *)
Memoized(m, o) == IF <<m, o>> = <<toggle.isMobile, toggle.open>> THEN toggle ELSE Captured(m, o)

(* The provider renders with layout m and open state o. *)
Render(m, o) == isMobile' = m /\ open' = o /\ toggle' = Memoized(m, o)

-----------------------------------------------------------------------------
(* useIsMobile: the window crosses the breakpoint; its effect or the media *)
(* query's change event tells.  The listener's effect is left for later.   *)
Resize ==
  /\ narrow' = ~narrow
  /\ UNCHANGED <<layoutVars, isMobile, open, asked, openMobile, cookie, toggle, keyToggle>>

UseIsMobile ==
  /\ isMobile # narrow
  /\ Render(narrow, open)
  /\ UNCHANGED <<layoutVars, narrow, asked, openMobile, cookie, keyToggle>>

(* The effect on [toggleSidebar] replaces the keydown listener. *)
ListenKeys ==
  /\ keyToggle # toggle
  /\ keyToggle' = toggle
  /\ UNCHANGED <<layoutVars, narrow, isMobile, open, asked, openMobile, cookie, toggle>>

(* setOpen: the parent is asked or the provider's state is set, and the    *)
(* cookie is written.                                                      *)
SetOpen(value) ==
  /\ cookie' = {value}
  /\ IF controlled
     THEN asked' = {value} /\ UNCHANGED <<isMobile, open, toggle>>
     ELSE Render(isMobile, value) /\ UNCHANGED asked
  /\ UNCHANGED <<layoutVars, narrow, openMobile>>

SetOpenMobile(value) ==
  /\ openMobile' = value
  /\ UNCHANGED <<layoutVars, narrow, isMobile, open, asked, cookie, toggle, keyToggle>>

(* A toggleSidebar closure is called. *)
ToggleSidebar(captured) ==
  IF captured.isMobile THEN SetOpenMobile(~openMobile)
  ELSE SetOpen(~captured.open) /\ keyToggle' = toggle'

(* SidebarTrigger and SidebarRail call the one of the last render; a click *)
(* flushes the effects of its renders at once.                             *)
ClickToggle == ToggleSidebar(toggle)

(* Ctrl-B or Cmd-B calls the listener's. *)
HandleKeyDown == ToggleSidebar(keyToggle)

(* useSidebar().setOpen of any component inside *)
ContextSetOpen(value) == SetOpen(value) /\ keyToggle' = toggle'

(* The Sheet of the mobile layout is dismissed. *)
SheetDismissed == isMobile /\ collapsible # "none" /\ openMobile /\ SetOpenMobile(FALSE)

(* The parent answers: it takes over what it was asked for, or keeps what  *)
(* it has.                                                                 *)
ParentAnswers ==
  /\ asked # {}
  /\ asked' = {}
  /\ \E o \in asked \cup {open} : Render(isMobile, o)
  /\ UNCHANGED <<layoutVars, narrow, openMobile, cookie, keyToggle>>

(* What the window does, and what the provider and its users do. *)
SidebarWindowNext == Resize \/ UseIsMobile
SidebarProviderNext ==
  \/ ListenKeys \/ HandleKeyDown
  \/ \E value \in BOOLEAN : ContextSetOpen(value)
  \/ ParentAnswers

-----------------------------------------------------------------------------
(* What is on the screen.                                                  *)

State == IF open THEN "expanded" ELSE "collapsed"

(* Sidebar: a panel that cannot collapse, the mobile Sheet, or the desktop *)
(* panel with its data-collapsible attribute.                              *)
DataCollapsible == IF collapsible # "none" /\ ~isMobile /\ State = "collapsed"
                   THEN collapsible ELSE ""
OnScreen == \/ collapsible = "none"
            \/ isMobile /\ openMobile
            \/ ~isMobile /\ DataCollapsible # "offcanvas"

(* group-data-[collapsible=icon]:hidden, or faded, of SidebarGroupLabel    *)
(* and SidebarGroupAction; of SidebarMenuAction and SidebarMenuBadge; of   *)
(* SidebarMenuSub and its buttons; and the shrunk SidebarMenuButton        *)
GroupPartsShown == DataCollapsible # "icon"
MenuPartsShown == DataCollapsible # "icon"
SubMenuShown == DataCollapsible # "icon"
ButtonTextShown == DataCollapsible # "icon"

(* The tooltip prop of a SidebarMenuButton: absent, its text, or an object *)
(* whose own hidden goes before the button's ("text" when it has none).    *)
Tooltips == {"absent", "text", "hidden", "shown"}

(* Slip: the tooltip is kept for the expanded sidebar. *)
TooltipShownExpanded(tooltip) ==
  tooltip = "shown" \/ (tooltip = "text" /\ ~(State # "expanded" \/ isMobile))

(* SidebarMenuButton: without the prop the button is returned bare. *)
TooltipShown(tooltip) ==
  tooltip = "shown" \/ (tooltip = "text" /\ ~(State # "collapsed" \/ isMobile))

(* A click on the trigger or the rail always flips the state of the layout *)
(* in use, or asks the parent for the opposite of it, however the layout,  *)
(* the parent and the keyboard have changed it since the closure was made. *)
ClickWorks ==
  [][ClickToggle =>
       IF isMobile THEN openMobile' = ~openMobile
       ELSE IF controlled THEN asked' = {~open} ELSE open' = ~open]_sidebarVars

(* A menu button that was given a tooltip always says on the screen what   *)
(* it is: where its text, labels, badges or sub-menu are left out, the     *)
(* tooltip is there, unless the caller hides it; one without a tooltip     *)
(* says nothing in the icon layout.  And the cookie of a provider that     *)
(* owns the state has the state that is shown.                             *)
AlwaysNamed ==
  /\ OnScreen => \/ ButtonTextShown /\ GroupPartsShown /\ MenuPartsShown /\ SubMenuShown
                 \/ \A tooltip \in Tooltips \ {"absent", "hidden"} : TooltipShown(tooltip)
  /\ ~controlled => cookie \subseteq {open}
===============================================================================
