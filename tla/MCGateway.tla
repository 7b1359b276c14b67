------------------------------ MODULE MCGateway ------------------------------
\* A small instance of Gateway for TLC.  The business "chat" has an upstream on the
\* admin page in the first configuration only, and a variable whose scheme is not
\* allowed; "other" has its upstream only in the environment.  Headers are allowed, the
\* lookup of a name in one may fail, one proxy stands before the gateway.
EXTENDS Gateway, TLC

CONSTANTS q1, q2

MCBizOf == [chat |-> "chat", Chat |-> "chat", other |-> "other", bad |-> None]
MCHostOf == [up |-> <<"api", "example">>, env |-> <<"env", "example">>,
             new |-> <<"new", "example">>, ip |-> <<"10.0.0.1">>,
             ftp |-> <<"ftp", "example">>]
MCAddresses == {<<"10.0.0.1">>}
MCFlaky == {<<"env", "example">>}
MCEnvUrl == [chat |-> "ftp", other |-> "env"]
MCLocations == [up |-> {"new"}, env |-> {}, new |-> {}, ip |-> {}, ftp |-> {}]
MCProxies == <<"proxy">>

Line(entry) == [first |-> <<entry>>, rest |-> <<>>]
NoLine == [first |-> <<>>, rest |-> <<>>]
Shape(seg, header, id, stream, badURL, xff) ==
  [seg |-> seg, header |-> header, id |-> id, stream |-> stream, badURL |-> badURL,
   xff |-> xff, real |-> None]
MCShapes ==
  {Shape("Chat", None, None, FALSE, FALSE, [first |-> <<"forged">>, rest |-> <<"too">>]),
   [Shape("other", "env", "x", TRUE, TRUE, Line("forged")) EXCEPT !.real = "client"],
   [Shape("other", None, "x", FALSE, FALSE, Line("garbage")) EXCEPT !.real = "garbage"],
   Shape("bad", None, None, FALSE, FALSE, NoLine)}

Config(url, slot, token, mode) ==
  [upstream |-> url, conc |-> slot, token |-> token, mode |-> mode]
MCSnapshots ==
  <<[chat |-> Config("up", TRUE, TRUE, "auto"), other |-> Config(None, FALSE, FALSE, "auto")],
    [chat |-> Config(None, FALSE, TRUE, "disabled"), other |-> Config(None, TRUE, FALSE, "auto")]>>
MCOptions == <<[timeout |-> TRUE, maxBody |-> 1], [timeout |-> FALSE, maxBody |-> 2]>>
=============================================================================
