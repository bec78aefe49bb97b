--------------------------- MODULE MCLiveReactions ---------------------------
EXTENDS LiveReactions

\* Every list, and one of those with a day selector with both of its days.
MCKeySets == {
    {<<"rideCoverage", "friday">>, <<"reaction-log", "friday">>},
    {<<"driverReactions", "friday">>, <<"driverReactions", "sunday">>},
    {<<"askRidesReactions", "friday">>}}
=============================================================================
