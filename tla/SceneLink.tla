--------------------------------- MODULE SceneLink ---------------------------------
(***************************************************************************)
(* Which vertical scene belongs to a main scene (core/SceneLink.cpp).  A   *)
(* scene name is a sequence of words; the empty name stands for "keep the  *)
(* current one" in the explicit map and for "no scene" as a result.        *)
(***************************************************************************)
EXTENDS Sequences

NoScene == <<>>

\* "V " before the name.
Prefixed(name) == <<"V">> \o name

\* The default rule: the prefixed name, else the same name.
ByName(main, verticals) ==
    IF Prefixed(main) \in verticals THEN Prefixed(main)
    ELSE IF main \in verticals THEN main ELSE NoScene

\* An entry counts when it says "keep current" or names a scene that exists.
EntryCounts(entry, verticals) == entry = NoScene \/ entry \in verticals

\* `links` is [enabled, map]: map is a function on some of the main names.
resolve_linked_scene(main, links, verticals) ==
    IF ~links.enabled THEN NoScene
    ELSE IF main \in DOMAIN links.map /\ EntryCounts(links.map[main], verticals) THEN links.map[main]
    ELSE ByName(main, verticals)

scene_changed_needs_catch_up(target, active) == target # NoScene /\ target # active
================================================================================
