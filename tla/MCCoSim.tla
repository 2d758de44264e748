------------------------------ MODULE MCCoSim ------------------------------
(***************************************************************************)
(* TLC instance of CoSim: two units of steps 2 and 3, or of equal steps,   *)
(* that feed one another, with a delay, an interruption, a reaction to an  *)
(* output that writes an input, and a drawn lifetime an output enables;    *)
(* or one exported unit (Exported), and whoever calls it.                  *)
(***************************************************************************)
EXTENDS CoSim, Exported

VARIABLE subject   \* "engine" or "unit"

MCLoc   == {"a", "b", "i", "y", "z"}
MCValue == {0, 1}
MCStore == [MCLoc -> MCValue]

When(l, v) == {s \in MCStore : s[l] = v}

Plain(aut, source, targets, draws, guard, policy) ==
  [aut |-> aut, source |-> source, targets |-> targets, law |-> "dated",
   draws |-> draws, rate |-> [s \in MCStore |-> 0], guard |-> guard,
   policy |-> policy, observer |-> FALSE, writes |-> << >>]

Writing(def, l, v) == [def EXCEPT !.writes = [k \in {l} |-> v]]
OnCrossing(def) == [def EXCEPT !.law = "watched"]

Menu == <<
  Writing(Plain("a", 0, {1}, {1, 4}, MCStore, "reset"), "i", 1),
  Writing(Plain("a", 1, {0}, {0, 2}, MCStore, "reset"), "i", 0),
  Writing(OnCrossing(Plain("b", 0, {1}, {0}, When("y", 1), "reset")), "i", 1),
  Writing(OnCrossing(Plain("b", 1, {0}, {0}, When("z", 0), "reset")), "i", 0),
  Writing(Plain("b", 0, {1}, {1, 3}, When("z", 1), "resume"), "i", 1),
  Writing(Plain("b", 1, {0}, {0}, When("y", 0), "reset"), "i", 1)
>>

Unit(step, variable, input, output, react) ==
  [step |-> step, variable |-> variable, inputs |-> {input}, outputs |-> {output},
   start |-> 0, react |-> [p \in MCValue \X [{input} -> MCValue] |-> react[p[1], p[2][input]]]]

Follow == [n \in MCValue, v \in MCValue |-> v]
Oppose == [n \in MCValue, v \in MCValue |-> 1 - v]
Toggle == [n \in MCValue, v \in MCValue |-> IF v = 1 THEN 1 - n ELSE n]

Pairings ==
  {<<Unit(2, v, "i", "y", Follow), Unit(3, w, "y", "z", Oppose)>> : v, w \in BOOLEAN}
  \cup {<<Unit(2, v, "z", "y", Oppose), Unit(s, w, "y", "z", Follow)>> :
          s \in {2, 3}, v, w \in BOOLEAN}
  \cup {<<Unit(3, v, "i", "y", Toggle), Unit(1, w, "i", "z", Follow)>> : v, w \in BOOLEAN}

Selections == {n \in (1..6) \X (1..6) \X Pairings \X MCValue : n[1] < n[2]}

MCModels ==
  [n \in Selections |->
     [trans |-> <<Menu[n[1]], Menu[n[2]]>>,
      init |-> [l \in MCLoc |-> IF l = "b" THEN n[4] ELSE 0],
      goals |-> IF n[4] = 0 THEN << <<"b", 1>> >> ELSE << >>]]

MCUnits == [n \in Selections |-> n[3]]

-----------------------------------------------------------------------------
(* A unit that writes its own inputs: "o" latches that "a" was up while "b" *)
(* was down, and both go down once both are up, or the engine fails if the  *)
(* latch is set.  What is built of "a" and "b" up depends on which is       *)
(* handed over first.  The engine fails at once on "b" alone with the       *)
(* parameter, later on "b" with "o"; a stream raises "b" on its way.        *)
MCNames    == {"a", "b", "g", "o"}
MCVectors  == [MCNames -> {0, 1}]
MCDeclared == [n \in MCNames |-> 0]

MCReaction ==
  [v \in MCVectors |->
     CASE v["a"] = 1 /\ v["b"] = 0 -> [v EXCEPT !["o"] = 1]
       [] v["a"] = 1 /\ v["b"] = 1 ->
            IF v["o"] = 1 THEN Void ELSE [v EXCEPT !["a"] = 0, !["b"] = 0]
       [] v["a"] = 0 /\ v["b"] = 1 /\ v["g"] = 1 -> Void
       [] OTHER -> v]

MCPassing ==
  [p \in MCVectors \X {0, 1} |->
     IF p[1]["o"] = 1 /\ p[1]["b"] = 1 THEN Void
     ELSE IF p[2] = 1 /\ p[1]["a"] = 0 THEN [p[1] EXCEPT !["b"] = 1] ELSE p[1]]

MCBatches ==
  {<< <<n, v>> >> : n \in {"a", "b", "g"}, v \in {0, 1}}
    \cup {<< <<"a", 1>>, <<"o", 1>> >>, << <<"b", 1>>, <<"g", 1>> >>}

-----------------------------------------------------------------------------
(* An engine that stands still while a unit is examined.                    *)
Dormant ==
  /\ model = CHOOSE m \in Models : TRUE
  /\ store = ModelOf[model].init /\ time = 0 /\ slots = [t \in Trans |-> Blank]
  /\ wave = 0 /\ streak = [at |-> 0, count |-> 0] /\ firings = [t \in Trans |-> Unfired]
  /\ seqEnd = None /\ status = "running" /\ units = Started(store) /\ phase = "idle"
  /\ left = [u \in Units |-> Inputs(u, store)]

OfEngine == subject = "engine" /\ CNext /\ UNCHANGED <<subject, xvars>>
OfUnit   == subject = "unit" /\ XNext /\ UNCHANGED <<subject, cvars>>

MCInit == \/ subject = "engine" /\ CInit /\ XInit /\ host = "off"
          \/ subject = "unit" /\ Dormant /\ XInit

MCSpec == MCInit /\ [][OfEngine \/ OfUnit]_<<cvars, xvars, subject>>
            /\ WF_<<cvars, xvars, subject>>(OfEngine)
=============================================================================
