---------------------------- MODULE MCServeLoop ----------------------------
(* TLC instances of ServeLoop: the built-in service, and services of which    *)
(* one is empty; payloads that fit to the last byte, or miss it by one.       *)
EXTENDS ServeLoop

\* 28 bytes before the name: one letter of it fits.
Full == [raw |-> 0, man |-> 12, uuid |-> 2, sdata |-> 0, appearance |-> TRUE, txPower |-> TRUE,
         name |-> 11, scan |-> 40]

Plain == [services |-> <<>>, adv |-> Full, ext |-> FALSE, nonconnectable |-> FALSE,
          directed |-> "none", periodic |-> FALSE, accept |-> FALSE, l2cap |-> FALSE]

Services == <<<<[uuid |-> "u1", write |-> FALSE, cccd |-> TRUE, descs |-> 1],
                [uuid |-> "u3", write |-> FALSE, cccd |-> FALSE, descs |-> 0]>>,
              <<>>,
              <<[uuid |-> "u2", write |-> TRUE, cccd |-> FALSE, descs |-> 0]>>>>

MCConfigs ==
  { Plain,
    [Plain EXCEPT !.services = Services, !.l2cap = TRUE, !.accept = TRUE],
    [Plain EXCEPT !.adv.man = 13],
    [Plain EXCEPT !.adv.raw = 31],
    [Plain EXCEPT !.adv.raw = 32, !.directed = "high", !.ext = TRUE],
    [Plain EXCEPT !.adv.raw = 32],
    [Plain EXCEPT !.adv.sdata = 29, !.directed = "low"],
    [Plain EXCEPT !.adv.man = 226, !.ext = TRUE, !.directed = "low", !.periodic = TRUE],
    [Plain EXCEPT !.adv.man = 227, !.ext = TRUE],
    [Plain EXCEPT !.adv.raw = 200, !.adv.scan = 55, !.ext = TRUE, !.nonconnectable = TRUE,
                  !.periodic = TRUE],
    [Plain EXCEPT !.adv.raw = 200, !.adv.scan = 56, !.ext = TRUE, !.nonconnectable = TRUE],
    [Plain EXCEPT !.adv.man = 0, !.adv.name = 0, !.nonconnectable = TRUE] }

\* What ServeLoopProofs asks of the configurations, and what it proves from it.
ASSUME DistinctAssumption == Distinct
ASSUME IndexedAssumption == Indexed
=============================================================================
