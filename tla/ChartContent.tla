---------------------------- MODULE ChartContent ----------------------------
(***************************************************************************)
(* What the charts of the component library render (chart.tsx): the        *)
(* configuration found for an item of recharts' payload, the content of a  *)
(* tooltip and of a legend, and the colours of the style sheet.  "" is a   *)
(* missing text; a text that is given is not empty.                        *)
(***************************************************************************)
EXTENDS Naturals, FiniteSets, Sequences

Themes1 == {"light", "dark"}

\* `||` of two texts.
Or(a, b) == IF a # "" THEN a ELSE b

\* The entry of a series that has none.
NoEntry == [label |-> "", icon |-> FALSE, color |-> "", theme |-> [t \in Themes1 |-> ""]]

Entry(config, key) == IF key \in DOMAIN config THEN config[key] ELSE NoEntry

\* Mutated form (of GetPayloadConfig): what the item names is not looked up.
GetPayloadConfigByKey(config, item, key) == Entry(config, key)

\* getPayloadConfigFromPayload: the item, or the row of data in it, may hold under
\* the key the name of the series; a name the configuration lacks is not used.
GetPayloadConfig(config, item, key) ==
  LET named == Or(Or(item.own[key], item.data[key]), key) IN
  Entry(config, IF named \in DOMAIN config THEN named ELSE key)

-----------------------------------------------------------------------------
(* ChartTooltipContent.                                                    *)

\* tooltipLabel, of the first item.
TooltipLabel(t) ==
  LET first == t.payload[1]
      entry == GetPayloadConfig(t.config, first, Or(Or(t.labelKey, first.dataKey), Or(first.name, "value")))
      value == IF t.labelKey = "" /\ t.label # "" THEN Or(Entry(t.config, t.label).label, t.label)
                                                  ELSE entry.label IN
  IF t.hideLabel \/ t.payload = <<>> THEN "" ELSE IF t.labelFormatter THEN "formatted" ELSE value

\* With one item and no dot the label is part of the item's row.
NestLabel(t) == Len(t.payload) = 1 /\ t.indicator # "dot"

\* The positions, in the payload, of the items that are shown; what is made of an item
\* keeps its position, and with it the order.
Visible(payload) == {i \in DOMAIN payload : payload[i].type # "none"}

\* The formatter takes over the row of an item with a value and a name.
Formatted(t, item) == t.formatter /\ item.value # "" /\ item.name # ""

TooltipRow(t, item) ==
  LET entry == GetPayloadConfig(t.config, item, Or(Or(t.nameKey, item.name), Or(item.dataKey, "value"))) IN
  [ mark  |-> IF entry.icon THEN "icon" ELSE IF t.hideIndicator THEN "" ELSE t.indicator,
    nested |-> IF NestLabel(t) THEN TooltipLabel(t) ELSE "",
    label |-> Or(entry.label, item.name),
    value |-> item.value ]

CustomRow == [mark |-> "", nested |-> "", label |-> "formatted", value |-> "formatted"]

TooltipContent(t) ==
  IF ~t.active \/ t.payload = <<>> THEN [heading |-> "", rows |-> <<>>]
  ELSE [ heading |-> IF NestLabel(t) THEN "" ELSE TooltipLabel(t),
         rows |-> [i \in Visible(t.payload) |->
                     IF Formatted(t, t.payload[i]) THEN CustomRow ELSE TooltipRow(t, t.payload[i])] ]

-----------------------------------------------------------------------------
(* ChartLegendContent and ChartStyle.                                      *)

LegendEntry(t, item) ==
  LET entry == GetPayloadConfig(t.config, item, Or(Or(t.nameKey, item.dataKey), "value")) IN
  [mark |-> IF entry.icon /\ ~t.hideIcon THEN "icon" ELSE "swatch", label |-> entry.label]

LegendContent(t) == [i \in Visible(t.payload) |-> LegendEntry(t, t.payload[i])]

\* The variable --color-<key> in a theme: the colour of the theme, or the only one.
Variable(config, u, k) ==
  [theme |-> u, key |-> k, color |-> Or(config[k].theme[u], config[k].color)]

Variables(config) == {Variable(config, u, k) : u \in Themes1, k \in DOMAIN config}

ChartStyle(config) == {v \in Variables(config) : v.color # ""}

\* chartId: the id that was given, or React's without its colons.
ChartId(chart) == IF chart.id # "" THEN chart.id ELSE chart.unique

\* The colours a chart wears: the style sheets of all charts of its id apply to it.
Worn(screen, i) == UNION {ChartStyle(screen[j].config) : j \in {j \in DOMAIN screen : ChartId(screen[j]) = ChartId(screen[i])}}

-----------------------------------------------------------------------------
\* The label of an active tooltip is shown exactly once, except that a single row
\* which should hold it loses it when the item is hidden or formatted (133-235).
LabelShownOnce(t) ==
  LET content == TooltipContent(t)
      places == (IF content.heading # "" THEN 1 ELSE 0)
                  + Cardinality({i \in DOMAIN content.rows : content.rows[i].nested # ""}) IN
  t.active /\ t.payload # <<>> /\ TooltipLabel(t) # "" =>
    \/ places = 1
    \/ places = 0 /\ NestLabel(t) /\ (t.payload[1].type = "none" \/ Formatted(t, t.payload[1]))

\* Where a name key is given, legend and tooltip have the same rows and call a series
\* by the same name, in so far as it has one (180-184, 278-282).
SameNames(t) ==
  LET rows == TooltipContent(t).rows
      legend == LegendContent(t) IN
  t.active =>
    /\ DOMAIN rows = DOMAIN legend
    /\ t.nameKey # "" =>
         \A i \in DOMAIN rows : rows[i] = CustomRow \/ rows[i].label = Or(legend[i].label, t.payload[i].name)

\* An item whose data names a series of the configuration is labelled as that series,
\* by whichever property the name key picks (310-346).
NamedByData(t) ==
  \A i \in DOMAIN LegendContent(t) :
    LET item == t.payload[i] IN
    t.nameKey # "" /\ item.own[t.nameKey] = "" /\ item.data[t.nameKey] \in DOMAIN t.config =>
      LegendContent(t)[i].label = t.config[item.data[t.nameKey]].label

\* A series that has a colour, or one for each theme, has one in every theme, and one
\* only (70-100).
ColouredInEveryTheme(config) ==
  \A k \in DOMAIN config : \A u \in Themes1 :
    config[k].color # "" \/ config[k].theme[u] # "" =>
      Cardinality({v \in ChartStyle(config) : v.theme = u /\ v.key = k}) = 1

\* A chart wears its own colours only, whatever other charts the screen has, unless
\* another was given its id, or one that reads like React's for it (46-68, 79-98).
WearsItsOwn(screen) ==
  \A i \in DOMAIN screen :
    \/ Worn(screen, i) = ChartStyle(screen[i].config)
    \/ \E j \in DOMAIN screen \ {i} :
         \/ screen[i].id = screen[j].id /\ screen[i].id # ""
         \/ screen[i].id = screen[j].unique \/ screen[j].id = screen[i].unique
=============================================================================
