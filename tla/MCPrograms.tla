------------------------------ MODULE MCPrograms ------------------------------
EXTENDS Programs
Build(s1, s2, s3, iterations, total, base) ==
  [seeds |-> <<s1, s2, s3, iterations, 0>>, total |-> total, base |-> base, start |-> 65000]
\* The 2K performance set, and the 2K validation and profile generation sets that
\* calibrate themselves, at three alignments; two sets of no table, one with a third so
\* small that the last pattern comes near its end; and one of negative seeds.  The clock
\* is about to wrap when a run starts.
MCBuilds == {Build(0, 0, 102, 400, 2000, 1), Build(1, 0, 0, 0, 2000, 3),
             Build(8, 8, 8, 0, 1200, 2), Build(1, 1, 9, 10, 819, 0),
             Build(28, 28, 11, 400, 660, 1), Build(40000, 40021, 35, 400, 1000, 2)}
MCUnknown == {Build(1, 1, 9, 10, 819, 0), Build(28, 28, 11, 400, 660, 1)}
MCRates == {10, 31, 170, 200}

Directive(f, w, star, p, c, long) ==
  [flags |-> f, width |-> w, star |-> star, precision |-> p, conv |-> c, long |-> long]
\* A negative width but -1 stands for one out of the arguments.
MCDirectives ==
  {Directive(f, w, w < -1, p, c, FALSE) :
     f \in SUBSET {"LEFT", "PLUS", "SPACE", "HEX_PREP", "ZEROPAD"}, w \in {-13, -1, 4, 12},
     p \in {-1, 0, 6}, c \in {"d", "u", "x", "X", "o", "p"}}
  \cup {Directive(f, w, FALSE, p, c, l) :
          f \in SUBSET {"LEFT"}, w \in {-1, 20}, p \in {-1, 1},
          c \in {"c", "s", "a", "A", "%", "end", "z"}, l \in BOOLEAN}
MCWords == {0, 5, -5, MinWord, 57005}
MCStrings == {<<"a", "b", "c">>, << >>}
MCAddresses == {<<0, 10, 172, 255, 9, 100>>}

MCIds == {<<<<8, 5>>, <<6, 0>>, <<1, 6>>>>}
===============================================================================
