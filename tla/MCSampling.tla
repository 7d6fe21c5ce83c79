---------------------------- MODULE MCSampling ----------------------------
\* Short samples of every kind of sampler.
EXTENDS Sampling

Sampler(k, f) == [kind |-> k, functional |-> f, warming |-> 1,
                  simulation |-> 2, maxfunctional |-> 1]

\* the atracer example: no_timing outside and simple inside a zone
Zoned == {Sampler("no_timing", {3}), Sampler("simple", {1})}

\* dynamic has a first functional length of its own, random any up to twice
\* its parameter
Kinds == {Sampler("simple", {1}), Sampler("no_timing", {3}),
          Sampler("interval", {0, 1, 3}), Sampler("smarts", {2}),
          Sampler("dynamic", {1, 2})}
============================================================================
