------------------------------ MODULE MCCoverage ------------------------------
EXTENDS Coverage

\* Days on both sides of month and year ends, in a leap year too.
MCDays == {<<1999, 12, 31>>, <<2000, 2, 1>>, <<2000, 2, 29>>, <<2000, 12, 1>>, <<2001, 1, 1>>}

MCDates ==
  {[iso |-> <<>>, confidence |-> "unknown", granularity |-> "day"]}
    \cup [iso : MCDays, confidence : {"exact", "inferred"}, granularity : {"day"}]
    \cup [iso : {<<2000, 2, 1>>, <<2000, 12, 1>>, <<2001, 1, 1>>},
          confidence : {"inferred"}, granularity : {"month"}]
    \cup [iso : {<<2000, 1, 1>>, <<2001, 1, 1>>},
          confidence : {"inferred"}, granularity : {"year"}]

MCSpecs ==
  MCDays \cup {Absent, <<2000>>, <<2001>>, <<2000, 2>>, <<2000, 12>>, <<1999, 12>>}

MCWindows ==
  [from : {<<2000, 2, 1>>, <<2000, 12, 1>>}, to : {<<1999, 12, 31>>, <<2000, 2, 29>>, <<2001, 1, 1>>}]
    \cup {Absent, Bad}

MCFronts ==
  [type : {"digest"}, window : MCWindows, complete : {"true"}]
    \cup [type : {"digest", "person"}, complete : {"true", "false", "bad", "none"},
          window : {[from |-> <<1999, 12, 31>>, to |-> <<2001, 1, 1>>]}]

\* One digest of part of a month, for the partial range that misses it.
OneDate == {[iso |-> <<2000, 2, 29>>, confidence |-> "exact", granularity |-> "day"]}
OneFront ==
  [type : {"digest"}, complete : {"true"},
   window : {[from |-> <<2000, 2, 1>>, to |-> <<2000, 2, 29>>]}]
=============================================================================
