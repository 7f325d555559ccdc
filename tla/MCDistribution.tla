----------------------------- MODULE MCDistribution -----------------------------
(***************************************************************************)
(* Instances of Program for TLC: tables with and without gaps, more        *)
(* servers than rows, an order number other than the first, up to three    *)
(* processes, and the ways in which a start can fail or go on with what it *)
(* should not have.                                                        *)
(***************************************************************************)
EXTENDS Program

ServerConf(servers, order, processes) ==
  <<Comment, Entry("domain", Text), Entry("port", 25), Entry("server_count", servers), Blank,
    Entry("order_number", order), Entry("process_count", processes)>>

DbConf == <<Entry("username", Text), Entry("port", 5432)>>

With(ids, conf, faults) ==
  [options |-> {"db", "srv"}, ip4 |-> TRUE, db_conf |-> DbConf, server_conf |-> conf,
   ids |-> ids, faults |-> faults]

(* Up to two processes per server, so four in the end, and every fault;    *)
(* three, so eight in the end, and no fault.                               *)
Good ==
  {With(1 .. 4, ServerConf(1, 1, 2), {"fork", "abort", "pieces"}),
   With(1 .. 4, ServerConf(2, 2, 2), {"fork", "abort", "pieces"}),
   With({1, 3, 4}, ServerConf(1, 1, 2), {"fork", "abort", "pieces"}),
   With({1, 2}, ServerConf(3, 2, 2), {"fork", "abort", "pieces"}),
   With({}, ServerConf(1, 1, 2), {}),
   With({1}, ServerConf(1, 1, 1), {"fork", "abort", "pieces"}),
   With({1, 2}, ServerConf(1, 1, 0), {}),
   With({1, 4}, ServerConf(1, 1, 3), {}), With({1, 3}, ServerConf(1, 1, 3), {})}

(* A second line for a key, a key that is missing or is no number or has   *)
(* no '=', order numbers of no server.                                     *)
Odd ==
  {With(1 .. 2, ServerConf(2, 1, 1) \o <<Entry("server_count", 1)>>, {}),
   With(1 .. 2, ServerConf(0, 1, 1) \o <<Entry("server_count", 1)>>, {}),
   With(1 .. 2, Tail(Tail(ServerConf(1, 1, 1))), {}),
   With(1 .. 2, SubSeq(ServerConf(1, 1, 1), 1, 6), {}),
   With(1 .. 2, <<Entry("process_count", 1)>>, {}),
   With(1 .. 2, <<Bare("port")>> \o ServerConf(1, 1, 1), {}),
   With(1 .. 3, ServerConf(2, 0, 1), {}), With(1 .. 3, ServerConf(1, 3, 1), {})}

Failing ==
  LET good == With(1 .. 2, ServerConf(1, 1, 1), {}) IN
  {[good EXCEPT !.options = {"db"}], [good EXCEPT !.ip4 = FALSE],
   [good EXCEPT !.db_conf = NoFile], [good EXCEPT !.db_conf = Unreadable],
   [good EXCEPT !.db_conf = <<Entry("port", Text)>>],
   [good EXCEPT !.server_conf = NoFile], [good EXCEPT !.server_conf = Unreadable]}

AllStarts   == Good \cup Odd \cup Failing
AllSettings == {SettingOf(s) : s \in AllStarts}
===============================================================================
