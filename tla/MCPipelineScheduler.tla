------------------------- MODULE MCPipelineScheduler -------------------------
(***************************************************************************)
(* Instances of PipelineScheduler for TLC: families of small pipelines.    *)
(* A step is <<command, skip, dependsOn>>.                                 *)
(***************************************************************************)
EXTENDS PipelineScheduler

CONSTANTS a, b, c, d, implicit

Row(t) == [command |-> t[1], skip |-> t[2], dependsOn |-> t[3]]
Pipeline(rows) == [i \in 0 .. Len(rows) - 1 |-> Row(rows[i + 1])]

\* Four steps: a diamond, a fan-out beside an independent chain, a fan-in whose
\* dependencies are named in both orders, an implicit chain through a skipped
\* step, a step that names a later one (rejected).
FourSteps ==
    { Pipeline(<< <<a, FALSE, <<>> >>, <<b, FALSE, <<a>> >>, <<c, FALSE, <<a>> >>, <<d, FALSE, <<c, b>> >> >>),
      Pipeline(<< <<a, FALSE, implicit>>, <<b, FALSE, <<>> >>, <<c, FALSE, <<a, b>> >>, <<d, FALSE, <<>> >> >>),
      Pipeline(<< <<a, FALSE, implicit>>, <<b, TRUE, implicit>>, <<c, FALSE, implicit>>, <<d, FALSE, <<a>> >> >>),
      Pipeline(<< <<a, FALSE, <<>> >>, <<b, FALSE, <<>> >>, <<c, FALSE, <<b>> >>, <<d, FALSE, <<a, c>> >> >>),
      Pipeline(<< <<a, FALSE, <<c>> >>, <<b, FALSE, <<>> >>, <<c, FALSE, <<>> >>, <<d, FALSE, <<>> >> >>) }

=============================================================================
