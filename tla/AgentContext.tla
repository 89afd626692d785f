---- MODULE AgentContext -----------------------------------------------------
(****************************************************************************)
(* The context of the bounty agent, read from a file when the agent starts. *)
(* Numbers are looked for key by key; some are compared with the constants  *)
(* of the token economy, after they were cut to the width they are kept in, *)
(* and a file that disagrees is left for the defaults.  Limits of the trust *)
(* levels are compared with nothing.                                        *)
(****************************************************************************)
EXTENDS Naturals, Sequences

CONSTANTS Quality, Points, DefaultLimit, QualityWidth, LimitWidth, Values, Garbled, ContextLines

VARIABLES file, context

agentContextVars == <<file, context>>

\* The keys stand for one number kept in a byte, one kept whole, and the
\* daily limit of a level; the three defaults are the constants.
Keys == {"min_quality_score", "max_bounty_points", "daily_bounty_limit"}

Defaults == [source |-> "defaults", quality |-> Quality, points |-> Points, limit |-> DefaultLimit]

Init ==
  /\ file = <<>>
  /\ context = Defaults

\* A line of the file, with a number or with something that is none.
WriteLine(key, value) ==
  /\ Len(file) < ContextLines
  /\ file' = Append(file, [key |-> key, value |-> value])
  /\ UNCHANGED context

\* The first line with the key counts, and one that is no number counts as if
\* there were none.
Extract(key, default) ==
  LET with == {i \in DOMAIN file : file[i].key = key}
  IN  IF with = {} THEN default
      ELSE LET value == file[CHOOSE i \in with : \A j \in with : i <= j].value
           IN  IF value = Garbled THEN default ELSE value

ExtractYamlU64(key, default) == Extract(key, default)
ExtractNestedYamlU64(key, default) == Extract(key, default)

Parsed ==
  [source |-> "file",
   quality |-> ExtractYamlU64("min_quality_score", Quality) % QualityWidth,
   points |-> ExtractYamlU64("max_bounty_points", Points),
   limit |-> ExtractNestedYamlU64("daily_bounty_limit", DefaultLimit) % LimitWidth]

Validate(c) == c.quality = Quality /\ c.points = Points

Load ==
  /\ context' = IF Validate(Parsed) THEN Parsed ELSE Defaults
  /\ UNCHANGED file

Next == Load \/ \E key \in Keys, value \in Values \cup {Garbled} : WriteLine(key, value)

Spec == Init /\ [][Next]_agentContextVars

TypeOK ==
  /\ file \in Seq([key : Keys, value : Values \cup {Garbled}])
  /\ context \in [source : {"defaults", "file"}, quality : 0..(QualityWidth - 1),
                  points : Values \cup {Points}, limit : 0..(LimitWidth - 1)]

----------------------------------------------------------------------------
Says(key, value) == \E i \in DOMAIN file : file[i].key = key /\ file[i].value = value
Numbers(key) == {v \in Values : Says(key, v)}

\* Whatever a file says, the agent works with the economy's constants; only a
\* limit may differ, and then the file says it, up to the width it is kept in.
ContextAgrees ==
  /\ context.quality = Quality /\ context.points = Points
  /\ context.limit = DefaultLimit \/ \E v \in Numbers("daily_bounty_limit") : context.limit = v % LimitWidth

\* Of the numbers a file gives for a key only the first is heard: a limit is
\* never taken from a file whose first one is no number.
FirstLineCounts ==
  [][ \A i \in DOMAIN file :
        context' # context /\ context'.source = "file"
        /\ file[i] = [key |-> "daily_bounty_limit", value |-> Garbled]
        /\ (\A j \in 1..(i - 1) : file[j].key # "daily_bounty_limit") =>
          context'.limit = DefaultLimit ]_agentContextVars
==============================================================================
