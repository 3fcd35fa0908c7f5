------------------------------ MODULE MCHotplug ------------------------------
EXTENDS HotplugMonitor

\* Two cards whose driver allows one session each, and the software encoder.
TwoCards ==
    <<[gpu |-> 0, igpu |-> FALSE, max |-> 1, latency |-> 2],
      [gpu |-> 1, igpu |-> FALSE, max |-> 1, latency |-> 2],
      [gpu |-> NoGpu, igpu |-> FALSE, max |-> 0, latency |-> 8]>>
=============================================================================
