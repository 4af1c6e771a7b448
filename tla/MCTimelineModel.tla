-------------------------- MODULE MCTimelineModel --------------------------
(* Models of TimelineModel: bounds are given by the configurations.         *)
EXTENDS TimelineModel

\* One clip, as it is imported, is enough for the finding.
MCOneDescriptor ==
    {[in_time |-> 0, out_time |-> 1, source_in |-> 0, source_out |-> 1,
      speed |-> SpeedUnit]}
=============================================================================
