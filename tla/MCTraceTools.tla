---------------------------- MODULE MCTraceTools ----------------------------
EXTENDS TraceTools

MCConfigs == {[int |-> TRUE, fp |-> FALSE, io |-> TRUE],
              [int |-> FALSE, fp |-> TRUE, io |-> FALSE]}
MCSnapshots == {[pc |-> <<0>>, reg |-> <<0>>, io |-> <<0>>],
                [pc |-> <<1>>, reg |-> <<7>>, io |-> <<1>>]}
MCEventLists == {<<Node("OP", <<0>>), Node("MA", <<"Store", 1, 2, 2>>)>>}
MCDumpOptions == {[begin |-> 0, count |-> 9, end |-> 9],
                  [begin |-> 1, count |-> 1, end |-> 3],
                  [begin |-> 2, count |-> 9, end |-> 3]}
MCFilters == {[on |-> "all", addr |-> 0, physical |-> FALSE, load |-> FALSE,
               store |-> FALSE],
              [on |-> "pc", addr |-> 1, physical |-> FALSE, load |-> FALSE,
               store |-> FALSE],
              [on |-> "memory", addr |-> 3, physical |-> TRUE, load |-> FALSE,
               store |-> TRUE]}

Text(pc, reg) == <<Node("BASIC", <<pc>>), Node("INT", <<reg>>)>>
MCExpects ==
    {[format |-> "text", cycles |-> <<Text(0, 0), Text(1, 7), <<Node("INT", <<7>>)>>>>],
     [format |-> "text",
      cycles |-> <<Append(Text(1, 0), Node("FP", <<7>>)),
                   <<Node("BASIC", <<0>>)>>>>],
     [format |-> "gdb",
      cycles |-> <<<<Node("pc", <<0>>), Node("priv", <<3>>)>>,
                   <<Node("pc", <<1>>), Node("x", <<7>>)>>,
                   <<Node("priv", <<3>>)>>, <<Node("csr", <<0>>)>>>>]}
=============================================================================
