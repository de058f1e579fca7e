----------------------------- MODULE MCLogStream -----------------------------
(* TLC instance of LogStream: two channels, one of which has a virtual       *)
(* device, and the other only devices that write.                            *)
EXTENDS LogStream

Filter(pri, begin, count, mask) ==
  [pri |-> pri, begin |-> begin, count |-> count, mask |-> mask]
FilteredDevice(able, out, f) ==
  [able |-> able, in_null |-> TRUE, out |-> out, pri |-> f.pri, begin |-> f.begin,
   count |-> f.count, mask |-> f.mask]
Every == Filter(0, 0, 0, {})

From(filter, able, f) ==
  [a |-> [filter |-> filter, virtual |-> 2,
          devices |-> <<FilteredDevice(TRUE, "file", f),
                      FilteredDevice(TRUE, "virtual", Filter(0, 0, 0, {1}))>>],
   b |-> [filter |-> Every, virtual |-> 1,
          devices |-> <<FilteredDevice(able, "file", Filter(1, 0, 0, {}))>>]]

TwoConfigs ==
  {From(Every, TRUE, Filter(0, 0, 1, {})), From(Filter(0, 0, 2, {}), FALSE, Filter(0, 1, 1, {}))}
MCMessages == {<<0, 1>>, <<1, 0>>}
MCChannels == {"a", "b"}
=============================================================================
