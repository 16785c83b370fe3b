------------------------------- MODULE MCContracts -------------------------------
(****************************************************************************)
(* Instances of Contracts for TLC: the templates of src/erc, the token of   *)
(* runtime_parity_test.go, and a net of four actions.                       *)
(****************************************************************************)
EXTENDS TemplateContracts

CONSTANTS zero, alice, bob

Function(name, vars_, body) ==
  <<"fn", "(", name, ")", "{">> \o FlattenSeq([k \in DOMAIN vars_ |-> <<"var", " ", vars_[k], " ",
      IF vars_[k] = "amount" THEN "amount" ELSE "address", " ">>]) \o body \o <<"}">>
Flow(from, to) == from \o <<"-", "|", "amount", "|", ">">> \o to \o <<" ">>
InBalance == <<"BALANCES", "[", "to", "]">>
OutBalance == <<"BALANCES", "[", "from", "]">>
Enough == <<"require", "(">> \o OutBalance \o <<">", "=", "amount", ")">>
\* The text of runtime_parity_test.go, with more declarations first; its TOTAL_SUPPLY is
\* TOTAL here.
ParityText(first) ==
  <<"schema", " ", "ERC", "{", "version", "\"", "1", "\"">> \o first \o
  <<"register", " ", "BALANCES", " ", "map", "[", "address", "]", "uint256", " ", "observable", " ",
    "register", " ", "TOTAL", " ", "uint256", " ">>
  \o Function("mint", <<"to", "amount">>, Flow(<<"mint">>, InBalance) \o Flow(<<"mint">>, <<"TOTAL">>))
  \o Function("transfer", <<"from", "to", "amount">>,
              Enough \o Flow(OutBalance, <<"transfer">>) \o Flow(<<"transfer">>, InBalance))
  \o Function("burn", <<"from", "amount">>,
              Enough \o Flow(OutBalance, <<"burn">>) \o Flow(<<"TOTAL">>, <<"burn">>))
  \o <<"}">>

\* Accounts that start with an amount, as in dsl/testdata/erc20.btw: the same, so that
\* they stay interchangeable.
Holders ==
  <<"initial_state", "{", "BALANCES", ":", "{", "\"", "alice", "\"", ":", "1", "\"", "bob", "\"", ":", "1", "}", "}">>

Beginning == [Dsl |-> <<>>, Held |-> Holders]

\* A net with a start, a loop, a join and a source without end.
Net == TemplateOf("Net",
  << TokenPlace("p", <<"uint256">>, 1), TokenPlace("q", <<"uint256">>, 0), TokenPlace("r", <<"uint256">>, 0) >>,
  << Act("start"), Act("loop"), Act("join"), Act("mint") >>,
  << Plain("p", "start", ""), Plain("start", "q", ""), Plain("q", "loop", ""), Plain("loop", "q", ""),
     Plain("loop", "r", ""), Plain("q", "join", ""), Plain("r", "join", ""), Plain("join", "p", ""),
     Plain("mint", "r", "") >>)

Scenario(template, functions, most) == [of |-> template, functions |-> functions, calls |-> most]
\* All the actions of a template.
Whole(template, most) == Scenario(template, ActionIDs(template.schema), most)
FunctionsOf(names) == {<<n>> : n \in names}

Planned ==
  [ERC020 |-> Whole(ERC020, 3), ERC0721 |-> Whole(ERC0721, 4), ERC01155 |-> Whole(ERC01155, 3),
   ERC04626 |-> Whole(ERC04626, 3),
   ERC05725 |-> Scenario(ERC05725, ActionIDs(ERC05725.schema) \cup {<<"advanceEpoch">>}, 5),
   Tokens |-> Scenario(Combined, FunctionsOf({"mint", "tokenMint", "tokenBurn", "tokenTransfer", "setApprovalForAll",
                                      "tokenApprove"}), 3),
   Vault |-> Scenario(Combined, FunctionsOf({"mint", "burn", "vaultDeposit", "vaultWithdraw", "vaultRedeem", "vaultHarvest"}), 5),
   Vest |-> Scenario(Combined, FunctionsOf({"mint", "vestCreate", "vestClaim", "vestRevoke", "vestBurn", "advanceEpoch"}), 5),
   Combined |-> Whole(Combined, 2),
   Vote |-> Scenario(Vote, ActionIDs(Vote.schema) \cup FunctionsOf({"transferOwnership", "renounceOwnership"}), 6),
   Net |-> Whole(Net, 12)]
  @@ [name \in {"Dsl", "Held"} |->
        Whole([version |-> name, schema |-> SchemaOf(ParityText(Beginning[name]))[1]],
              IF name = "Dsl" THEN 8 ELSE 6)]
Contracted(plan) == [plan EXCEPT !.of = Generate(@)]
Generated == [name \in DOMAIN Planned |-> Contracted(Planned[name])]
MCScenarios == Generated

MCAccounts == {zero, alice, bob}
MCNumberInputs == [amount |-> {1, 2}, assets |-> {1}, shares |-> {1, 2}, total |-> {2}, start |-> {0},
                   cliff |-> {1}, end |-> {2}, claimAmount |-> {1, 2}]
MCTextOf ==
  [x \in MCAccounts \cup {1, 2} |-> CASE x = alice -> <<"alice">> [] x = bob -> <<"bob">> [] x = zero -> <<"zero">>
                                    [] OTHER -> <<"number", x>>]
MCSymmetry == Permutations({alice, bob})

MCStateNames ==
  {"balances", "allowances", "operators", "tokenBalances", "tokenSupply", "tokenApproved", "vaultTotalAssets",
   "vaultTotalShares", "vaultShares", "vestSchedules", "vestClaimed", "vestCreators", "vestTotalLocked", "totalSupply"}
GuardWords ==
  {"amount", "from", "to", "owner", "caller", "tokenId", "id", "owners", "approved", "assets", "shares", "receiver",
   "maxWithdraw", "maxRedeem", "yieldAmount", "total", "start", "end", "beneficiary", "vestedAmount", "claimed",
   "creators", "schedules", "revocable", "revokedAt", "pollConfig", "nullifiers", "nullifier", "address", "msg",
   "sender", "true", "false", "BALANCES", "TOTAL"}
MCLetters == GuardWords \cup MCStateNames
MCWords == Keywords \cup {"ERC", "BALANCES", "TOTAL", "map", "address", "uint256", "bool", "amount", "mint", "transfer",
                          "burn", "from", "to", "alice", "bob"}
MCDslDigits == DigitValue
MCReserved == {<<"event">>}
MCNumerals == [s \in {"0", "1", "2"} |-> CASE s = "0" -> 0 [] s = "1" -> 1 [] OTHER -> 2]
MCAddresses == [n \in {0} |-> "zero"]
=============================================================================
