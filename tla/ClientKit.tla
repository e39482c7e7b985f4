------------------------------- MODULE ClientKit -------------------------------
(***************************************************************************)
(* The parts of the web clients that run beside the conversation stream    *)
(* and share no state with one another: each has a module of its own, and  *)
(* a behaviour of this module is one of them at work, in one of the two    *)
(* applications.  The UI kit (toasts, sidebar, carousel, charts, forms)     *)
(* exists twice: the mockup sandbox has copies of the files of             *)
(* agentmail-ui that differ in comments only.                              *)
(***************************************************************************)
EXTENDS FeedView, Transients, Identity, CustomFetch, Toasts, Sidebar, Carousel, Charts, Forms,
        Scrolling, Previews

VARIABLES app,    \* the application
          part    \* the part that is looked at

vars == <<app, part, feedVars, transientVars, identityVars, fetchVars, toastVars,
          sidebarVars, carouselVars, chartVars, formVars, scrollVars,
          previewVars>>

AgentmailUI == "agentmail-ui"
MockupSandbox == "mockup-sandbox"
Kit == {"toasts", "sidebar", "carousel", "charts", "forms"}

(* Each application with a part of it; the other parts stay as they are.   *)
Init ==
  /\ \/ app = AgentmailUI /\ part \in Kit \cup {"feed", "scrolling", "transients",
                                                "identity", "fetch"}
     \/ app = MockupSandbox /\ part \in Kit \cup {"previews"}
  /\ FeedInit /\ TransientsInit /\ IdentityInit /\ FetchInit
  /\ ToastsInit /\ SidebarInit /\ CarouselInit /\ ScrollingInit /\ PreviewsInit
  /\ part # "transients" => count = 0 /\ ~streaming
  /\ part # "identity" => storage = "all"
  /\ part # "sidebar" => ~controlled /\ collapsible = "none" /\ ~narrow /\ open
  /\ part # "carousel" => slides = 0 /\ ~loops
  /\ part # "previews" => onDisk = {} /\ componentPath = NoPreview
  /\ IF part = "charts" THEN ChartsInit(TooltipOptions, Configs)
     ELSE ChartsInit({PlainTooltip}, {[k \in Keys |-> "absent"]})
  /\ FormsInit(IF part = "forms" THEN [Fields -> BOOLEAN] ELSE {[f \in Fields |-> FALSE]})

-----------------------------------------------------------------------------
(* agentmail-ui *)
FeedPart == /\ part = "feed" /\ FeedNext
            /\ UNCHANGED <<transientVars, identityVars, fetchVars, toastVars,
                           sidebarVars, carouselVars, chartVars, formVars, scrollVars,
                           previewVars>>
TransientsPart == /\ part = "transients" /\ TransientsNext
                  /\ UNCHANGED <<feedVars, identityVars, fetchVars, toastVars,
                                 sidebarVars, carouselVars, chartVars, formVars, scrollVars,
                                 previewVars>>
IdentityPart == /\ part = "identity" /\ IdentityNext
                /\ UNCHANGED <<feedVars, transientVars, fetchVars, toastVars,
                               sidebarVars, carouselVars, chartVars, formVars, scrollVars,
                               previewVars>>
FetchPart == /\ part = "fetch" /\ FetchNext
             /\ UNCHANGED <<feedVars, transientVars, identityVars, toastVars,
                            sidebarVars, carouselVars, chartVars, formVars, scrollVars,
                            previewVars>>
ScrollingPart == /\ part = "scrolling" /\ ScrollingNext
                 /\ UNCHANGED <<feedVars, transientVars, identityVars, fetchVars, toastVars,
                                sidebarVars, carouselVars, chartVars, formVars, previewVars>>
PreviewsPart == /\ part = "previews" /\ PreviewsNext
                /\ UNCHANGED <<feedVars, transientVars, identityVars, fetchVars, toastVars,
                               sidebarVars, carouselVars, chartVars, formVars, scrollVars>>

(* The UI kit, of agentmail-ui and of the mockup sandbox *)
ToastStore == app = AgentmailUI /\ ToastStoreNext
UseToast == app = AgentmailUI /\ UseToastNext
Toaster == app = AgentmailUI /\ ToasterNext
ToastCloses == app = AgentmailUI /\ ToastCloseNext
MockupToastStore == app = MockupSandbox /\ ToastStoreNext
MockupUseToast == app = MockupSandbox /\ UseToastNext
MockupToaster == app = MockupSandbox /\ ToasterNext
MockupToastCloses == app = MockupSandbox /\ ToastCloseNext
ToastsPart == /\ part = "toasts"
              /\ \/ ToastStore \/ UseToast \/ Toaster \/ ToastCloses
                 \/ MockupToastStore \/ MockupUseToast \/ MockupToaster \/ MockupToastCloses
              /\ UNCHANGED <<feedVars, transientVars, identityVars, fetchVars,
                             sidebarVars, carouselVars, chartVars, formVars, scrollVars,
                             previewVars>>

SidebarWindow == app = AgentmailUI /\ SidebarWindowNext
SidebarSheet == app = AgentmailUI /\ SheetDismissed
SidebarProvider == app = AgentmailUI /\ SidebarProviderNext
SidebarClick == app = AgentmailUI /\ ClickToggle
MockupSidebarWindow == app = MockupSandbox /\ SidebarWindowNext
MockupSidebarSheet == app = MockupSandbox /\ SheetDismissed
MockupSidebarProvider == app = MockupSandbox /\ SidebarProviderNext
MockupSidebarClick == app = MockupSandbox /\ ClickToggle
SidebarPart == /\ part = "sidebar"
               /\ \/ SidebarWindow \/ SidebarSheet \/ SidebarProvider \/ SidebarClick
                  \/ MockupSidebarWindow \/ MockupSidebarSheet
                  \/ MockupSidebarProvider \/ MockupSidebarClick
               /\ UNCHANGED <<feedVars, transientVars, identityVars, fetchVars, toastVars,
                              carouselVars, chartVars, formVars, scrollVars, previewVars>>

CarouselAtWork == app = AgentmailUI /\ CarouselsNext
CarouselButtons == app = AgentmailUI /\ CarouselButtonsNext
MockupCarousel == app = MockupSandbox /\ CarouselsNext
MockupCarouselButtons == app = MockupSandbox /\ CarouselButtonsNext
CarouselPart == /\ part = "carousel"
                /\ \/ CarouselAtWork \/ CarouselButtons
                   \/ MockupCarousel \/ MockupCarouselButtons
                /\ UNCHANGED <<feedVars, transientVars, identityVars, fetchVars, toastVars,
                               sidebarVars, chartVars, formVars, scrollVars, previewVars>>

ChartContainers == app = AgentmailUI /\ ChartContainerNext
ChartTooltips == app = AgentmailUI /\ ChartTooltipNext
MockupChartContainers == app = MockupSandbox /\ ChartContainerNext
MockupChartTooltips == app = MockupSandbox /\ ChartTooltipNext
ChartsPart == /\ part = "charts"
              /\ ChartContainers \/ ChartTooltips \/ MockupChartContainers \/ MockupChartTooltips
              /\ UNCHANGED <<feedVars, transientVars, identityVars, fetchVars, toastVars,
                             sidebarVars, carouselVars, formVars, scrollVars, previewVars>>

FormFields == app = AgentmailUI /\ ValidatedNext
FieldErrors == app = AgentmailUI /\ FieldErrorNext
MockupFormFields == app = MockupSandbox /\ ValidatedNext
MockupFieldErrors == app = MockupSandbox /\ FieldErrorNext
FormsPart == /\ part = "forms"
             /\ FormFields \/ FieldErrors \/ MockupFormFields \/ MockupFieldErrors
             /\ UNCHANGED <<feedVars, transientVars, identityVars, fetchVars, toastVars,
                            sidebarVars, carouselVars, chartVars, scrollVars, previewVars>>

Next == /\ UNCHANGED <<app, part>>
        /\ \/ FeedPart \/ TransientsPart \/ IdentityPart \/ FetchPart \/ ScrollingPart
           \/ PreviewsPart \/ ToastsPart \/ SidebarPart \/ CarouselPart \/ ChartsPart \/ FormsPart

Spec == Init /\ [][Next]_vars

-----------------------------------------------------------------------------
(* What a component has copied, memoized or noted is what its source says  *)
(* now, and reaches the reader: the tooltip of a chart (chart.tsx), the    *)
(* errors of a form (form.tsx, field.tsx), the flags of the carousel's     *)
(* buttons (carousel.tsx), the name of a sidebar entry (sidebar.tsx), and  *)
(* the feed's note that it is at its bottom (MessageFeed.tsx).             *)
DerivedIsCurrent ==
  TooltipTrue /\ ErrorAnnounced /\ ButtonsTrue /\ AlwaysNamed /\ FollowerSeesEnd
================================================================================
