------------------------------- MODULE MCGuiLink -------------------------------
EXTENDS GuiLink

CallersMC == 1..2
Plan(first, second, conns, prompts, steady) ==
    [kinds |-> <<first, second>>, conns |-> conns, prompts |-> prompts, steady |-> steady]

\* A prompt across a reconnect; two attempts with a prompt each, or a disconnect
\* during the first one; two calls across a reconnect.
PlansMC == {
    Plan({"connect"}, {}, 2, 1, FALSE),
    Plan({"connect"}, {"connect", "disconnect"}, 1, 2, TRUE),
    Plan({"status"}, {"brim", "huge"}, 2, 0, FALSE)}

===============================================================================
