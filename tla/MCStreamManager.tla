--------------------------- MODULE MCStreamManager ---------------------------
(* Small instances of StreamManager: the programs of the host threads. *)
EXTENDS StreamManager, TLC

CONSTANTS
  s1, s2, s3, \* streams
  e1,         \* an event
  h1, h2      \* host threads

C(c, s) == [call |-> c, stream |-> s, event |-> e1, children |-> << >>]

\* A kernel that launches others, in the streams given.
Launching(s, children) == [C("kernel", s) EXCEPT !.children = children]

\* One host, two streams: kernels compete for slots, a blocking copy on the
\* NULL stream in between, a stream destroyed, the thread stopped at the end.
Mixed ==
  <<C("create", s1), C("create", s2), C("kernel", s1), C("kernel", s2),
    C("memcpy", s1), C("memcpy", ZERO), C("kernel", s2), C("destroy", s2),
    C("kernel", ZERO), C("device_sync", ZERO), C("exit", ZERO)>>

\* An event recorded twice in one stream orders two others behind it.
Events ==
  <<C("create", s1), C("create", s2), C("wait_event", s2), C("event", s1),
    C("kernel", s1), C("event", s1), C("wait_event", s2), C("memcpy", s2),
    C("wait_event", ZERO), C("stream_sync", ZERO)>>

\* Two hosts, each with a stream of its own.
Pair(s) ==
  <<C("create", s), C("kernel", s), C("memcpy", s), C("device_sync", ZERO)>>

\* One host uses the NULL stream, the other one a stream.
UsesZero == <<C("memcpy", ZERO)>>
UsesOne  == <<C("create", s1), C("kernel", s1)>>

\* A kernel that launches two others in the streams of its CTAs, and one on the NULL stream.
Nested ==
  <<C("create", s1), Launching(s1, <<s2, s3>>), C("memcpy", ZERO), Launching(ZERO, <<s2>>),
    C("device_sync", ZERO), C("exit", ZERO)>>

One(p) == h1 :> p @@ h2 :> << >>
W(p, n, lat) ==
  [program |-> p, slots |-> n, latency |-> lat, blocking |-> FALSE, limited |-> FALSE]

\* The mixed program with one kernel slot, with a cycle limit that may be hit at any moment,
\* and with CUDA_LAUNCH_BLOCKING; events; and two hosts.
AllWorkloads ==
  {W(One(Mixed), 1, 1),
   [W(One(Mixed), 2, 0) EXCEPT !.limited = TRUE],
   [W(One(Mixed), 2, 0) EXCEPT !.blocking = TRUE],
   W(One(Events), 2, 1),
   [W(One(Nested), 1, 0) EXCEPT !.limited = TRUE],
   W(h1 :> Pair(s1) @@ h2 :> Pair(s2), 2, 0)}

\* Parent and child may end in the same cycle; another kernel ends beside the last child
\* when the limit is hit; and with CUDA_LAUNCH_BLOCKING.
NestedSlots == {W(One(Nested), 2, 0)}
NestedLimit ==
  {[W(One(<<C("create", s1), C("create", s3), Launching(s1, <<s2>>), C("kernel", s3),
            C("exit", ZERO)>>), 2, 0) EXCEPT !.limited = TRUE]}
NestedBlocking == {[W(One(Nested), 1, 0) EXCEPT !.blocking = TRUE]}

ZeroRace == {W(h1 :> UsesZero @@ h2 :> UsesOne, 2, 0)}

==============================================================================
