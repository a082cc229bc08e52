------------------------- MODULE MCContainerLimits -------------------------
(* One container with a CPU and a memory slot.  Quantities are a few units, *)
(* so that every rounding happens after one or two scalings.                *)
EXTENDS ContainerLimits

BySlot(cpu, memory) == [s \in Slots |-> IF s \in CpuSlots THEN cpu ELSE memory]

Given(requests, limits) == [requests |-> requests, limits |-> limits]

\* Limits above the requests, equal to them, without a request, explicitly
\* zero, and none.
MCContainers ==
    { Given(BySlot(3, 3), BySlot(4, 5)),
      Given(BySlot(2, 4), BySlot(2, 4)),
      Given(BySlot(Nil, 2), BySlot(4, 3)),
      Given(BySlot(0, 2), BySlot(0, 3)),
      Given(BySlot(3, 2), BySlot(Nil, Nil)) }

MCRecommendations == { BySlot(1, 6), BySlot(2, 2), BySlot(5, 3), BySlot(6, 1) }

Change(value, percentage) == [value |-> value, percentage |-> percentage]
None == Change(Nil, Nil)

Own(resources, values) ==
    [container |-> "own", controlledResources |-> resources, controlledValues |-> values]

SpecWith(policies, cpu, memory, weight) ==
    [policies |-> policies, gap |-> [cpu |-> cpu, memory |-> memory], weight |-> weight]

MCSpecs ==
    { SpecWith(<<>>, None, None, 100),
      SpecWith(<<[Own(Nil, "RequestsOnly") EXCEPT !.container = "other"]>>, None, None, 50),
      SpecWith(<<>>, Change(1, 50), Change(3, 0), 100),
      SpecWith(<<Own(Nil, "RequestsOnly")>>, None, None, 100),
      SpecWith(<<Own(CpuSlots, "RequestsAndLimits"),
                 [Own(Nil, "RequestsOnly") EXCEPT !.container = "*"]>>,
               Change(Nil, 30), None, 70) }
=============================================================================
