------------------------------ MODULE MCParts ------------------------------
(* Statistics, windows, parsing, transfers and the desktop app for TLC.    *)
(* They share nothing but the prices: each behaviour is one of one part.   *)
EXTENDS Statistics, Windows, Parsing, Transfer, Sidecar

VARIABLE part

Opus == <<"opus">>
Mini == <<"mini">>
MCModelNames == {Opus, Mini}
MCPricing ==
    << [effectiveFrom |-> 3, premiumRequestCost |-> 4,
        modelPricing |-> Opus :> [input |-> 5, output |-> 9, cacheRead |-> 1, cacheWrite |-> 6],
        premiumMultiplier |-> Opus :> 3 @@ Mini :> 0],
       [effectiveFrom |-> 2, premiumRequestCost |-> 2,
        modelPricing |-> Opus :> [input |-> 8, output |-> 10, cacheRead |-> 1, cacheWrite |-> 6]
                         @@ Mini :> [input |-> 1, output |-> 2, cacheRead |-> 1, cacheWrite |-> 1],
        premiumMultiplier |-> Opus :> 10 @@ Mini :> 0] >>
Row(time, model, prompt, completion, read, write, turn, session) ==
    [time |-> time, model |-> model, prompt |-> prompt, completion |-> completion,
     cacheRead |-> read, cacheWrite |-> write, turn |-> turn, session |-> session]
MCRows ==
    { Row(0, <<"opus">>, 5, 1, 2, 0, TRUE, "s1"),
      Row(2 * 1440 - 30, <<"capi:", "opus">>, 6, 2, 0, 3, TRUE, "s1"),
      Row(2 * 1440, <<"opus", "-date">>, 4, 1, 5, 1, FALSE, "s2"),
      Row(2 * 1440 + 90, <<"opus">>, 7, 1, 1, 1, TRUE, "s1"),
      Row(3 * 1440, <<"sweagent-capi:", "mini", ":defaultReasoningEffort=">>, 3, 2, 0, 0, TRUE, "s2"),
      Row(3 * 1440 + 600, <<"opus">>, 9, 3, 4, 2, TRUE, "s2") }
MCWorkspaces ==
    { [rank |-> 1, place |-> "home", base |-> "app"],
      [rank |-> 2, place |-> "opt", base |-> "app"],
      [rank |-> 3, place |-> "/workspaces", base |-> "app"] }
MCOffsets == {0, 480, -330, -900}
MCUnknown == <<"unknown">>
MCRanges == {WholeLog, [min |-> 2, max |-> 0], [min |-> 1, max |-> 2]}
MCLogsOf == "m1" :> {"f1"} @@ "m2" :> {}

NoFlags == CHOOSE f \in Flags : TRUE

PartsInit ==
    /\ part \in {"statistics", "windows", "parsing", "transfer", "sidecar"}
    /\ StatisticsInit
    /\ WindowsInit /\ (part # "windows" => flags = NoFlags)
    /\ ParsingInit /\ (part # "parsing" => format = "usage")
    /\ TransferInit
    /\ SidecarInit

PartsNext ==
    \/ /\ part = "statistics" /\ StatisticsNext
       /\ UNCHANGED <<part, windowVars, parsingVars, transferVars, sidecarVars>>
    \/ /\ part = "windows" /\ Midnight
       /\ UNCHANGED <<part, statisticsVars, parsingVars, transferVars, sidecarVars>>
    \/ /\ part = "parsing" /\ ParsingNext
       /\ UNCHANGED <<part, statisticsVars, windowVars, transferVars, sidecarVars>>
    \/ /\ part = "transfer" /\ TransferNext
       /\ UNCHANGED <<part, statisticsVars, windowVars, parsingVars, sidecarVars>>
    \/ /\ part = "sidecar" /\ SidecarNext
       /\ UNCHANGED <<part, statisticsVars, windowVars, parsingVars, transferVars>>

PartsSpec ==
    PartsInit /\ [][PartsNext]_<<part, statisticsVars, windowVars, parsingVars,
                               transferVars, sidecarVars>>
=============================================================================
