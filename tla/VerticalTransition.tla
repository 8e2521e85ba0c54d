----------------------------- MODULE VerticalTransition -----------------------------
(***************************************************************************)
(* What a transition of the main canvas means on the vertical one          *)
(* (core/VerticalTransition.cpp).  A description of a transition is        *)
(* [id, path, matte, point, duration]: `path` of its stinger video,        *)
(* `matte` when it has a separate mask file, `point` its transition point  *)
(* in milliseconds, 0 when it has none or counts frames.  `exists` is the  *)
(* set of the files that are there, by their role beside that path.        *)
(***************************************************************************)
EXTENDS Integers

\* The file chosen for this very path, the one beside it, or the one any stinger may use ("generic");
\* "matte" below is the mask beside its own.
vertical_stinger_file(path, settings, exists) ==
    CASE settings.stinger_source = path /\ "configured" \in exists -> "configured"
      [] path # "" /\ "suffixed" \in exists -> "suffixed"
      [] path # "" /\ "generic" \in exists -> "generic"
      [] OTHER -> "none"

Instant == [kind |-> "instant", id |-> "cut", file |-> "none", ms |-> 0]

\* A vertical video whose mask exists in 16:9 only is no vertical video.
VerticalVideo(desc, settings, exists) ==
    LET file == vertical_stinger_file(desc.path, settings, exists)
    IN IF desc.matte /\ "matte" \notin exists THEN "none" ELSE file

decide_vertical_transition(settings, main, custom, exists) ==
    LET source == IF settings.mode = "custom" /\ custom.id # "none" THEN custom ELSE main
        file == VerticalVideo(source, settings, exists)
    IN CASE settings.mode = "cut" \/ source.id \in {"", "cut"} -> Instant
         [] source.id = "stinger" /\ file = "none" ->
               [kind |-> "fallback", id |-> "fade", file |-> "none",
                ms |-> IF source.point > 0 THEN source.point ELSE source.duration]
         [] OTHER -> [kind |-> "play", id |-> source.id, ms |-> source.duration,
                      file |-> IF source.id = "stinger" THEN file ELSE "none"]
================================================================================
