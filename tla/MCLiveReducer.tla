--------------------------- MODULE MCLiveReducer ---------------------------
EXTENDS LiveReducer

\* The supplier lists the points it reports in the order of the match.
Listed(contents) ==
    SelectSeq([i \in Identities |-> <<i, contents[i]>>], LAMBDA x : x[2] # "absent")

\* Each point is absent or has one of two contents, the last one always the
\* same.
PointPayloads ==
    {[points |-> Listed(c), status |-> "LIVE", games |-> 0, name |-> "full",
      statistic |-> None] :
        c \in {x \in [Identities -> {"absent", "ace", "fault"}] : x[3] # "fault"}}

\* Payloads in which other fields are missing, or come back, or the match ends.
SparsePayloads ==
    {[points |-> <<<<1, "ace">>>>, status |-> d[1], games |-> g, name |-> d[2],
      statistic |-> d[3]] :
        g \in {NoScore, None, 1},
        d \in {<<"LIVE", "full", 1>>, <<"FINISHED", "initial", None>>}}

MCPayloads == PointPayloads \cup SparsePayloads
============================================================================
