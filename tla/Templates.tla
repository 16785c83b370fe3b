-------------------------------- MODULE Templates --------------------------------
(****************************************************************************)
(* The token templates of src/erc: their states, actions with guards, and   *)
(* arcs.  Events, roles, metadata and Merkle depths are left out.  A guard  *)
(* is written as GuardSyntax reads it, as a sequence of symbols.            *)
(****************************************************************************)
EXTENDS MetaSchema

\* Names and types.  A type is the tuple of its keys and its value.
Named(q)      == [k \in DOMAIN q |-> <<q[k]>>]
Data(id, t)   == State(<<id>>, "", Named(t), 0)
Counter(id)   == Data(id, <<"uint256">>)
Started(id, n) == State(<<id>>, "", <<<<"uint256">>>>, n)
TokenPlace(id, t, n) == State(<<id>>, "token", Named(t), n)

\* An action without a guard, and with one.
Act(id)        == Action(<<id>>, <<>>)
Guarded(id, g) == Action(<<id>>, g)

\* An arc with its keys and its value; no value is the default weight.
Keyed(source, target, keys, value) ==
  Arc(<<source>>, <<target>>, Named(keys), IF value = "" THEN <<>> ELSE <<value>>)
Plain(source, target, value) == Keyed(source, target, <<>>, value)

TemplateOf(version, states, actions, arcs) ==
  [version |-> version, schema |-> [states |-> states, actions |-> actions, arcs |-> arcs]]

-----------------------------------------------------------------------------
(* The pieces of the guards. *)

Both(p, q)    == p \o <<"&", "&">> \o q
Either(p, q)  == p \o <<"|", "|">> \o q
Same(x, y)    == x \o <<"=", "=">> \o y
AtLeast(x, n) == x \o <<">", "=", n>>
AtMost(n, x)  == <<n, "<", "=">> \o x
Above(n, x)   == <<n, ">">> \o x
Entry(m, key) == <<m, "[", key, "]">>
Entry2(m, key1, key2) == Entry(m, key1) \o <<"[", key2, "]">>
EntryOf(m, x, key)    == <<m, "[">> \o x \o <<"]", "[", key, "]">>
Of(f, x)      == <<f, "(", x, ")">>
NotZero(x)    == <<x, "!", "=">> \o Of("address", "0")
InGroup(p)    == <<"(">> \o p \o <<")">>

\* caller is from or an operator of from.
ByOperator == Either(Same(<<"caller">>, <<"from">>), Entry2("operators", "from", "caller"))

-----------------------------------------------------------------------------
(* NewERC020: the fungible token. *)
ERC020 == TemplateOf("ERC-020",
  << Counter("totalSupply"), Data("balances", <<"address", "uint256">>),
     Data("allowances", <<"address", "address", "uint256">>) >>,
  << Guarded("transfer", Both(AtLeast(Entry("balances", "from"), "amount"), NotZero("to"))),
     Act("approve"),
     Guarded("transferFrom", Both(AtLeast(Entry("balances", "from"), "amount"),
                                  AtLeast(Entry2("allowances", "from", "caller"), "amount"))),
     Guarded("mint", NotZero("to")),
     Guarded("burn", AtLeast(Entry("balances", "from"), "amount")) >>,
  << Keyed("balances", "transfer", <<"from">>, ""), Keyed("transfer", "balances", <<"to">>, ""),
     Keyed("approve", "allowances", <<"owner", "spender">>, ""),
     Keyed("balances", "transferFrom", <<"from">>, ""),
     Keyed("allowances", "transferFrom", <<"from", "caller">>, ""),
     Keyed("transferFrom", "balances", <<"to">>, ""),
     Keyed("mint", "balances", <<"to">>, ""), Plain("mint", "totalSupply", ""),
     Keyed("balances", "burn", <<"from">>, ""), Plain("totalSupply", "burn", "") >>)

(* NewERC0721: the non-fungible token. *)
ERC0721 == TemplateOf("ERC-0721",
  << Data("owners", <<"uint256", "address">>), Data("approved", <<"uint256", "address">>),
     Data("operators", <<"address", "address", "bool">>), Data("balances", <<"address", "uint256">>) >>,
  << Guarded("transferFrom",
       Both(Same(Entry("owners", "tokenId"), <<"from">>),
            InGroup(Either(Either(Same(<<"caller">>, <<"from">>), Same(Entry("approved", "tokenId"), <<"caller">>)),
                           Entry2("operators", "from", "caller"))))),
     Guarded("approve", Either(Same(Entry("owners", "tokenId"), <<"caller">>),
                               EntryOf("operators", Entry("owners", "tokenId"), "caller"))),
     Act("setApprovalForAll"),
     Guarded("mint", Same(Entry("owners", "tokenId"), Of("address", "0"))),
     Guarded("burn", Either(Either(Same(Entry("owners", "tokenId"), <<"caller">>),
                                   Same(Entry("approved", "tokenId"), <<"caller">>)),
                            EntryOf("operators", Entry("owners", "tokenId"), "caller"))) >>,
  << Keyed("owners", "transferFrom", <<"tokenId">>, ""), Keyed("transferFrom", "owners", <<"tokenId">>, "to"),
     Keyed("approved", "transferFrom", <<"tokenId">>, ""),
     Keyed("balances", "transferFrom", <<"from">>, "1"), Keyed("transferFrom", "balances", <<"to">>, "1"),
     Keyed("approve", "approved", <<"tokenId">>, "to"),
     Keyed("setApprovalForAll", "operators", <<"owner", "operator">>, "isApproved"),
     Keyed("mint", "owners", <<"tokenId">>, "to"), Keyed("mint", "balances", <<"to">>, "1"),
     Keyed("owners", "burn", <<"tokenId">>, ""), Keyed("balances", "burn", <<"from">>, "1") >>)

(* NewERC01155: the multi-token. *)
ERC01155 == TemplateOf("ERC-01155",
  << Data("balances", <<"uint256", "address", "uint256">>), Data("operators", <<"address", "address", "bool">>) >>,
  << Guarded("safeTransferFrom", Both(AtLeast(Entry2("balances", "id", "from"), "amount"), InGroup(ByOperator))),
     Guarded("safeBatchTransferFrom", ByOperator), Act("setApprovalForAll"), Act("mint"), Act("mintBatch"),
     Guarded("burn", Both(AtLeast(Entry2("balances", "id", "from"), "amount"), InGroup(ByOperator))),
     Guarded("burnBatch", ByOperator) >>,
  << Keyed("balances", "safeTransferFrom", <<"id", "from">>, ""),
     Keyed("safeTransferFrom", "balances", <<"id", "to">>, ""),
     Keyed("balances", "safeBatchTransferFrom", <<"id", "from">>, ""),
     Keyed("safeBatchTransferFrom", "balances", <<"id", "to">>, ""),
     Keyed("setApprovalForAll", "operators", <<"owner", "operator">>, "isApproved"),
     Keyed("mint", "balances", <<"id", "to">>, ""), Keyed("mintBatch", "balances", <<"id", "to">>, ""),
     Keyed("balances", "burn", <<"id", "from">>, ""), Keyed("balances", "burnBatch", <<"id", "from">>, "") >>)

(* NewERC04626: the vault. *)
ERC04626 == TemplateOf("ERC-04626",
  << Data("asset", <<"address">>), Counter("totalAssets"), Counter("totalShares"),
     Data("balances", <<"address", "uint256">>), Data("assetBalances", <<"address", "uint256">>) >>,
  << Guarded("deposit", Both(Above("assets", <<"0">>), NotZero("receiver"))),
     Guarded("mint", Both(Above("shares", <<"0">>), NotZero("receiver"))),
     Guarded("withdraw", Both(Both(Above("assets", <<"0">>), AtMost("assets", Of("maxWithdraw", "owner"))),
                              NotZero("receiver"))),
     Guarded("redeem", Both(Both(Above("shares", <<"0">>), AtMost("shares", Of("maxRedeem", "owner"))),
                            NotZero("receiver"))),
     Guarded("harvest", Above("yieldAmount", <<"0">>)) >>,
  << Keyed("assetBalances", "deposit", <<"caller">>, "assets"), Plain("deposit", "totalAssets", "assets"),
     Keyed("deposit", "balances", <<"receiver">>, "shares"), Plain("deposit", "totalShares", "shares"),
     Keyed("assetBalances", "mint", <<"caller">>, "assets"), Plain("mint", "totalAssets", "assets"),
     Keyed("mint", "balances", <<"receiver">>, "shares"), Plain("mint", "totalShares", "shares"),
     Keyed("balances", "withdraw", <<"owner">>, "shares"), Plain("totalShares", "withdraw", "shares"),
     Plain("totalAssets", "withdraw", "assets"), Keyed("withdraw", "assetBalances", <<"receiver">>, "assets"),
     Keyed("balances", "redeem", <<"owner">>, "shares"), Plain("totalShares", "redeem", "shares"),
     Plain("totalAssets", "redeem", "assets"), Keyed("redeem", "assetBalances", <<"receiver">>, "assets"),
     Plain("harvest", "totalAssets", "yieldAmount") >>)

(* NewERC05725: the transferable vesting position. *)
ERC05725 == TemplateOf("ERC-05725",
  << Data("payoutToken", <<"address">>), Data("schedules", <<"uint256", "VestingSchedule">>),
     Data("owners", <<"uint256", "address">>), Data("claimed", <<"uint256", "uint256">>),
     Data("creators", <<"uint256", "address">>), Counter("totalLocked"), Started("nextTokenId", 1) >>,
  << Guarded("create", Both(Both(Above("total", <<"0">>), Above("end", <<"start">>)), NotZero("beneficiary"))),
     Guarded("claim", Of("vestedAmount", "tokenId") \o <<">">> \o Entry("claimed", "tokenId")),
     Guarded("transfer", Both(Same(Entry("owners", "tokenId"), <<"from">>), NotZero("to"))),
     Guarded("revoke", Both(Both(Same(Entry("creators", "tokenId"), <<"caller">>),
                                 Entry("schedules", "tokenId") \o <<".", "revocable">>),
                            Same(Entry("schedules", "tokenId") \o <<".", "revokedAt">>, <<"0">>))),
     Guarded("burn", Both(Same(Entry("owners", "tokenId"), <<"caller">>),
                          Entry("claimed", "tokenId") \o <<">", "=">> \o
                            Entry("schedules", "tokenId") \o <<".", "total">>)) >>,
  << Keyed("create", "schedules", <<"tokenId">>, "schedule"), Keyed("create", "owners", <<"tokenId">>, "beneficiary"),
     Keyed("create", "creators", <<"tokenId">>, "caller"), Plain("create", "totalLocked", "total"),
     Plain("nextTokenId", "create", ""), Plain("create", "nextTokenId", ""),
     Keyed("schedules", "claim", <<"tokenId">>, ""), Keyed("claimed", "claim", <<"tokenId">>, ""),
     Keyed("claim", "claimed", <<"tokenId">>, "claimAmount"), Plain("totalLocked", "claim", "claimAmount"),
     Keyed("owners", "transfer", <<"tokenId">>, ""), Keyed("transfer", "owners", <<"tokenId">>, "to"),
     Keyed("schedules", "revoke", <<"tokenId">>, ""), Keyed("revoke", "schedules", <<"tokenId">>, "schedule"),
     Plain("totalLocked", "revoke", "unvestedAmount"),
     Keyed("owners", "burn", <<"tokenId">>, ""), Keyed("schedules", "burn", <<"tokenId">>, ""),
     Keyed("claimed", "burn", <<"tokenId">>, ""), Keyed("creators", "burn", <<"tokenId">>, "") >>)

-----------------------------------------------------------------------------
(* NewCombinedERC: the fungible token, the multi-token, the vault and the vesting *)
(* positions over the same balances.                                              *)

CombinedTokens ==
  << Counter("totalSupply"), Data("balances", <<"address", "uint256">>),
     Data("allowances", <<"address", "address", "uint256">>), Data("operators", <<"address", "address", "bool">>),
     Data("tokenBalances", <<"uint256", "address", "uint256">>), Data("tokenSupply", <<"uint256", "uint256">>),
     Data("tokenApproved", <<"uint256", "address">>) >>
CombinedVaults ==
  << Counter("vaultTotalAssets"), Counter("vaultTotalShares"), Data("vaultShares", <<"address", "uint256">>),
     Data("vestSchedules", <<"uint256", "VestingSchedule">>), Data("vestClaimed", <<"uint256", "uint256">>),
     Data("vestCreators", <<"uint256", "address">>), Counter("vestTotalLocked") >>

ByApproved == Either(ByOperator, Same(Entry("tokenApproved", "id"), <<"caller">>))
CombinedActions ==
  << Guarded("transfer", Both(AtLeast(Entry("balances", "from"), "amount"), NotZero("to"))),
     Guarded("approve", AtMost("amount", <<"totalSupply">>)),
     Guarded("transferFrom", Both(AtLeast(Entry("balances", "from"), "amount"),
                                  AtLeast(Entry2("allowances", "from", "caller"), "amount"))),
     Guarded("mint", NotZero("to")), Guarded("burn", AtLeast(Entry("balances", "from"), "amount")),
     Guarded("tokenMint", NotZero("to")), Guarded("tokenBurn", ByApproved), Guarded("tokenTransfer", ByApproved),
     Act("tokenApprove"), Act("setApprovalForAll"), Guarded("tokenMintBatch", NotZero("to")),
     Guarded("tokenBurnBatch", ByOperator), Guarded("tokenTransferBatch", ByOperator),
     Act("vaultDeposit"), Act("vaultMint"), Act("vaultWithdraw"), Act("vaultRedeem"), Act("vaultHarvest"),
     Act("vestCreate"), Act("vestClaim"), Act("vestRevoke"), Act("vestBurn") >>

CombinedTokenArcs ==
  << Keyed("balances", "transfer", <<"from">>, ""), Keyed("transfer", "balances", <<"to">>, ""),
     Keyed("approve", "allowances", <<"owner", "spender">>, ""),
     Keyed("balances", "transferFrom", <<"from">>, ""), Keyed("allowances", "transferFrom", <<"from", "caller">>, ""),
     Keyed("transferFrom", "balances", <<"to">>, ""),
     Keyed("mint", "balances", <<"to">>, ""), Plain("mint", "totalSupply", ""),
     Keyed("balances", "burn", <<"from">>, ""), Plain("totalSupply", "burn", ""),
     Keyed("tokenMint", "tokenBalances", <<"id", "to">>, "amount"),
     Keyed("tokenMint", "tokenSupply", <<"id">>, "amount"),
     Keyed("tokenBalances", "tokenBurn", <<"id", "from">>, "amount"),
     Keyed("tokenSupply", "tokenBurn", <<"id">>, "amount"),
     Keyed("tokenBalances", "tokenTransfer", <<"id", "from">>, "amount"),
     Keyed("tokenTransfer", "tokenBalances", <<"id", "to">>, "amount"),
     Keyed("tokenApprove", "tokenApproved", <<"id">>, "to"),
     Keyed("setApprovalForAll", "operators", <<"owner", "operator">>, "approved") >>
CombinedVaultArcs ==
  << Keyed("balances", "vaultDeposit", <<"caller">>, "assets"), Plain("vaultDeposit", "vaultTotalAssets", "assets"),
     Plain("vaultDeposit", "vaultTotalShares", "shares"),
     Keyed("vaultDeposit", "vaultShares", <<"receiver">>, "shares"),
     Plain("vaultTotalAssets", "vaultWithdraw", "assets"), Plain("vaultTotalShares", "vaultWithdraw", "shares"),
     Keyed("vaultShares", "vaultWithdraw", <<"owner">>, "shares"),
     Keyed("vaultWithdraw", "balances", <<"receiver">>, "assets"),
     Plain("vaultTotalAssets", "vaultRedeem", "assets"), Plain("vaultTotalShares", "vaultRedeem", "shares"),
     Keyed("vaultShares", "vaultRedeem", <<"owner">>, "shares"),
     Keyed("vaultRedeem", "balances", <<"receiver">>, "assets"),
     Plain("vaultHarvest", "vaultTotalAssets", "yieldAmount") >>
CombinedVestArcs ==
  << Keyed("balances", "vestCreate", <<"caller">>, "total"), Keyed("vestCreate", "vestSchedules", <<"tokenId">>, ""),
     Keyed("vestCreate", "tokenBalances", <<"tokenId", "beneficiary">>, "nftAmount"),
     Keyed("vestCreate", "tokenSupply", <<"tokenId">>, "nftAmount"),
     Keyed("vestCreate", "vestCreators", <<"tokenId">>, "caller"), Plain("vestCreate", "vestTotalLocked", "total"),
     Keyed("vestClaim", "vestClaimed", <<"tokenId">>, "claimAmount"),
     Plain("vestTotalLocked", "vestClaim", "claimAmount"),
     Keyed("vestClaim", "balances", <<"caller">>, "claimAmount"),
     Keyed("vestSchedules", "vestRevoke", <<"tokenId">>, ""),
     Plain("vestTotalLocked", "vestRevoke", "unvestedAmount"),
     Keyed("vestRevoke", "balances", <<"caller">>, "unvestedAmount"),
     Keyed("tokenBalances", "vestRevoke", <<"tokenId", "owner">>, "nftAmount"),
     Keyed("tokenSupply", "vestRevoke", <<"tokenId">>, "nftAmount"),
     Keyed("tokenBalances", "vestBurn", <<"tokenId", "owner">>, "nftAmount"),
     Keyed("tokenSupply", "vestBurn", <<"tokenId">>, "nftAmount"),
     Keyed("vestSchedules", "vestBurn", <<"tokenId">>, "") >>
Combined == TemplateOf("Combined", CombinedTokens \o CombinedVaults, CombinedActions,
                       CombinedTokenArcs \o CombinedVaultArcs \o CombinedVestArcs)

(* NewVote: the poll. *)
Vote == TemplateOf("Vote",
  << Data("voterRegistry", <<"uint256", "uint256">>), Data("nullifiers", <<"uint256", "bool">>),
     Data("tallies", <<"uint256", "uint256">>), Counter("pollConfig"), TokenPlace("registrySlots", <<"int">>, 0) >>,
  << Guarded("createPoll", Same(<<"pollConfig">>, <<"0">>)), Act("registerVoter"),
     Guarded("castVote", Both(Same(<<"pollConfig">>, <<"1">>),
                              Same(Entry("nullifiers", "nullifier"), <<"false">>))),
     Guarded("closePoll", Same(<<"pollConfig">>, <<"1">>)) >>,
  << Keyed("castVote", "tallies", <<"choice">>, "weight"), Keyed("castVote", "nullifiers", <<"nullifier">>, "weight"),
     Plain("registerVoter", "registrySlots", ""), Plain("registrySlots", "castVote", "") >>)
=============================================================================
