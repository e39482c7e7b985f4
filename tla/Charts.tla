-------------------------------- MODULE Charts --------------------------------
(***************************************************************************)
(* components/ui/chart.tsx: a chart's container with its config, the       *)
(* tooltip that Recharts renders with the items under the pointer, and the *)
(* legend.  Both look the label of a series up in the config; the label at *)
(* the tooltip's head is memoized and must follow the config and the       *)
(* pointer.  A string is a key of the config or None.                      *)
(***************************************************************************)
EXTENDS Integers, Sequences

CONSTANT Keys   \* names of series

VARIABLES options,      \* the props of the tooltip that do not change
          config,       \* config[k]: absent | bare (without a label) | labelled
          active,       \* the pointer is over the chart
          payload,      \* the items under it
          label,        \* the category under it
          tooltipLabel  \* the memo: its dependencies and its value

chartVars == <<options, config, active, payload, label, tooltipLabel>>

None == "none"
Configs == [Keys -> {"absent", "bare", "labelled"}]

(* An item: its series (dataKey, and name unless the series has another),  *)
(* the string that the item or its row holds under the key that is looked  *)
(* up, and whether its type is "none".                                     *)
Items == [dataKey : Keys, alias : {None, CHOOSE k \in Keys : TRUE}, hidden : BOOLEAN]
Payloads == {<<>>} \cup {<<i>> : i \in Items}
              \cup {<<i, [dataKey |-> k, alias |-> None, hidden |-> FALSE]>> : i \in Items, k \in Keys}

(* getPayloadConfigFromPayload: the entry's key, or None *)
GetPayloadConfig(item, key) ==
  LET found == IF item.alias # None THEN item.alias ELSE key
  IN IF config[found] # "absent" THEN found
     ELSE IF config[key] # "absent" THEN key ELSE None

LabelOf(entry) == IF entry # None /\ config[entry] = "labelled" THEN <<"label", entry>> ELSE <<>>

Or(key, default) == IF key # None THEN key ELSE default

(* The body of the useMemo of ChartTooltipContent; <<>> is null. *)
TooltipLabel ==
  IF options.hideLabel \/ payload = <<>> THEN <<>>
  ELSE LET item == payload[1]
           key == Or(options.labelKey, item.dataKey)
           value == IF options.labelKey = None /\ label # None
                    THEN IF LabelOf(label) # <<>> THEN LabelOf(label) ELSE <<"text", label>>
                    ELSE LabelOf(GetPayloadConfig(item, key))
       IN IF options.labelFormatter THEN <<"formatted", value>> ELSE value

(* Slip: config is missing in the dependencies. *)
TooltipDepsFewer == <<label, payload>>

(* Its dependencies that change *)
TooltipDeps == <<label, payload, config>>

TooltipOptions == [hideLabel : BOOLEAN, labelFormatter : BOOLEAN, formatter : BOOLEAN,
                   indicator : {"dot", "line"},
                   labelKey : {None, CHOOSE k \in Keys : TRUE},
                   nameKey : {None, CHOOSE k \in Keys : TRUE}]
PlainTooltip == [hideLabel |-> FALSE, labelFormatter |-> FALSE, formatter |-> FALSE,
                 indicator |-> "dot", labelKey |-> None, nameKey |-> None]

ChartsInit(optionsOf, configs) ==
  /\ options \in optionsOf
  /\ config \in configs
  /\ active = FALSE /\ payload = <<>> /\ label = None
  /\ tooltipLabel = [deps |-> TooltipDeps, value |-> TooltipLabel]

(* The tooltip's content renders. *)
TooltipRender ==
  tooltipLabel' = IF TooltipDeps' = tooltipLabel.deps THEN tooltipLabel
                  ELSE [deps |-> TooltipDeps', value |-> TooltipLabel']

(* ChartContainer gets another config and hands it down by its context.    *)
ChartContainer(c) ==
  /\ c # config
  /\ config' = c
  /\ UNCHANGED <<options, active, payload, label>>
  /\ TooltipRender

(* Recharts: the pointer is over other items, or leaves; what it was over  *)
(* stays as the payload of an inactive tooltip.                            *)
ChartTooltip(a, p, l) ==
  /\ <<a, p, l>> # <<active, payload, label>>
  /\ a \/ <<p, l>> = <<payload, label>>
  /\ active' = a /\ payload' = p /\ label' = l
  /\ UNCHANGED <<options, config>>
  /\ TooltipRender

ChartContainerNext == \E c \in Configs : ChartContainer(c)
ChartTooltipNext ==
  \E a \in BOOLEAN, p \in Payloads, l \in {None, CHOOSE k \in Keys : TRUE} : ChartTooltip(a, p, l)

-----------------------------------------------------------------------------
(* What is on the screen.                                                  *)

NestLabel == Len(payload) = 1 /\ options.indicator # "dot"

(* ChartTooltipContent: its rows, one per item that is not hidden, each    *)
(* with its name, or left to the formatter.                                *)
Rows == {i \in DOMAIN payload : ~payload[i].hidden}
RowName(i) ==
  LET named == LabelOf(GetPayloadConfig(payload[i], Or(options.nameKey, payload[i].dataKey)))
  IN IF named # <<>> THEN named ELSE <<"text", payload[i].dataKey>>

(* Where the label is: at the head, 0, or in a row. *)
LabelPlaces == IF ~active \/ payload = <<>> THEN {}
               ELSE IF ~NestLabel THEN {0}
               ELSE {i \in Rows : ~options.formatter}

(* ChartLegendContent: the label of a series *)
LegendName(k) ==
  LabelOf(GetPayloadConfig([dataKey |-> k, alias |-> None], Or(options.nameKey, k)))

(* The label of the tooltip is the one that its items and the config give  *)
(* now, and it is shown once, unless the only row is hidden or left to the *)
(* formatter; and a series that the legend has a label for has the same    *)
(* one in the tooltip, unless its row holds another name for it.           *)
TooltipTrue ==
  /\ tooltipLabel.value = TooltipLabel
  /\ active /\ payload # <<>> /\ ~(NestLabel /\ (Rows = {} \/ options.formatter)) =>
       \E place \in {0} \cup Rows : LabelPlaces = {place}
  /\ \A i \in Rows : payload[i].alias = None /\ LegendName(payload[i].dataKey) # <<>> =>
                       RowName(i) = LegendName(payload[i].dataKey)
===============================================================================
