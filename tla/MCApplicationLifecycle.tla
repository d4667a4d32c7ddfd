----------------------- MODULE MCApplicationLifecycle -----------------------
EXTENDS ApplicationLifecycle, TLC

CONSTANTS web, tasks, o1, o2

TwoRoles == {web, tasks}
WorkersOff == {tasks}
TwoOps == {o1, o2}

\* Each mode once, one of them naming a role that does not exist.
EveryMode == {NoOptions,
              [mode |-> "only", roles |-> {tasks}],
              [mode |-> "default-except", roles |-> {web}],
              [mode |-> "all-except", roles |-> {web}],
              [mode |-> "only", roles |-> {web, Unknown}]}

Option(name, rs) == [option |-> name, roles |-> rs]

\* Command lines that use --roles-only, if anything.
OnlyOptions == {<<>>,
                <<Option("only", {tasks})>>,
                <<Option("only", {web}), Option("only", {web, tasks})>>,
                <<Option("other", {}), Option("only", {Unknown})>>,
                <<Option("only", NoValue)>>,
                <<Option("self-test", {}), Option("only", {web})>>}

OneEnv == {NoOptions}
NoArgs == {<<>>}

=============================================================================
