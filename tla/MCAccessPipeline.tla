-------------------------- MODULE MCAccessPipeline --------------------------
(***************************************************************************)
(* Instances of AccessPipeline for TLC: which rules a request meets.       *)
(***************************************************************************)
EXTENDS AccessPipeline

CONSTANTS r1, r2, r3

TwoInOrder == [r \in {r1, r2} |-> IF r = r1 THEN 1 ELSE 2]

ThreeInOrder == [r \in {r1, r2, r3} |-> CASE r = r1 -> 1 [] r = r2 -> 2 [] OTHER -> 3]

Shape(controls, removes, actions, reads) ==
  [controls |-> controls, removes |-> removes, actions |-> actions, reads |-> reads,
   override |-> "none", restyled |-> FALSE]

Overriding(shape, override, restyled) ==
  [shape EXCEPT !.override = override, !.restyled = restyled]

Switches == {"engine_off", "engine_on", "detection_only"}

\* Exclusions, helpers and virtual patches that move the engine switch or remove
\* a rule, with the detection rules they bear on.
SwitchShapes ==
  {Shape({c}, {}, {}, "args") : c \in Switches}
    \cup {Shape({"engine_off", "engine_on"}, {}, {"log"}, "head"),
          Shape({"detection_only"}, {}, {}, "head"),
          Shape({"engine_on"}, {}, {"block"}, "head"),
          Shape({"detection_only"}, {}, {"fix"}, "head"),
          Shape({}, {r3}, {}, "args"),
          Shape({}, {}, {"block"}, "head"),
          Shape({}, {}, {"fix", "block"}, "args"),
          Overriding(Shape({}, {}, {"fix"}, "head"), "block", TRUE),
          Shape({}, {}, {"limit"}, "head")}

BodyShapes ==
  {Shape({"body_access_off"}, {}, {}, reads) : reads \in {"head", "args"}}
    \cup {Shape({"body_access_off"}, {}, {"log"}, "head"),
          Shape({"engine_on"}, {}, {}, "head"),
          Shape({"detection_only"}, {}, {}, "head"),
          Shape({"engine_off"}, {}, {}, "head"),
          Shape({}, {r1}, {}, "args"),
          Shape({}, {}, {"block"}, "body")}

LocalOnly == {"local"}
CustomOrLocal == {"custom", "local"}
AllButCustom == {"global", "local", "crs"}

NoBody == {"none"}
AnyBody == AllBodies

NoFailure == {{}}
\* Each limit alone (the header gates are alike), and those that meet on one body.
AnyFailure ==
  {{f} : f \in {"path"} \cup BodyGates}
    \cup {{}, {"query_args"}, {"content_type", "arg_count"}, {"path", "body_parser"},
          {"body_limit", "fields_limit"}, {"body_limit", "body_parser"},
          {"body_limit", "arg_count"}}
=============================================================================
