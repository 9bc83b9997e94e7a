---------------------------- MODULE WalletCalls ----------------------------
(***************************************************************************)
(* What the agent asks of a wallet: the calls of the SDK                   *)
(* (packages/sdk/src/contract-calls.ts, index.ts), what the Circle driver  *)
(* makes of them (apps/cli/src/circle-cli-driver.ts), the fees it expects  *)
(* and the capabilities the wallets report (apps/cli/src/wallets.ts,       *)
(* packages/sdk/src/wallet.ts).                                            *)
(*                                                                         *)
(* ABI encoding is free of collisions: the data of a call is its function  *)
(* and its arguments, and an encoded payload is the arguments in it.       *)
(***************************************************************************)
EXTENDS Protocol

CONSTANTS
    Unit,   \* UNIT, the ARCL of one Arcal
    Unset   \* no address, no authorization, no evidence

-----------------------------------------------------------------------------
(* The builders.  Each throws where its guard does not hold.               *)
Call(chainId, to, function, args) ==
    [chainId |-> chainId, to |-> to, valueNative |-> 0, function |-> function, args |-> args]

MintBuildable(challenge, issuer, verifier) ==
    /\ CanonicalEcdsaSignature(issuer.r, issuer.s, issuer.v)
    /\ CanonicalEcdsaSignature(verifier.r, verifier.s, verifier.v)
    /\ challenge.mintFee = MintFee

BuildMintCall(chainId, controller, challenge, issuer, certificate, verifier) ==
    [Call(chainId, controller, "mint", <<challenge, issuer, certificate, verifier>>)
        EXCEPT !.valueNative = MintFee]

(* assertCertifiedMintCall: the call stored with an operation is the Mint  *)
(* of this wallet, with the certificate the operation has the receipt of.  *)
MintDomain(manifest) == [chainId |-> manifest.chainId,
                         verifyingContract |-> manifest.deployment["controller"]]

CertifiedMintCall(manifest, wallet, operation, call) ==
    /\ operation.kind = "MINT"
    /\ call.chainId = manifest.chainId
    /\ call.to = manifest.deployment["controller"]
    /\ call.valueNative = MintFee
    /\ call.function = "mint"
    /\ call.args[1].minter = wallet
    /\ CertificateHashable(call.args[3])
    /\ HashWorkCertificateTypedData(MintDomain(manifest), call.args[3])
           = operation.receiptHash

RegisterContentBuildable(packed, proof) == ValidPackedPiDigits(packed) /\ Len(proof) = 20

BuildRegisterContentCall(chainId, mirror, id, packed, proof) ==
    Call(chainId, mirror, "registerContent", <<id, packed, proof>>)

BuildLiquifyCall(chainId, vault, id, tokenRecipient, deadline) ==
    Call(chainId, vault, "liquify", <<id, tokenRecipient, deadline>>)

BuildReformCall(chainId, vault, nftRecipient, expectedHeadId, deadline) ==
    Call(chainId, vault, "reform", <<nftRecipient, expectedHeadId, deadline>>)

BuildNftApprovalCall(chainId, mirror, vault, id) ==
    Call(chainId, mirror, "approve", <<vault, id>>)

ArclApprovalBuildable(amount) == amount >= Unit

BuildArclApprovalCall(chainId, base, vault, amount) ==
    Call(chainId, base, "approve", <<vault, amount>>)

BuildActivateConversionsCall(chainId, vault) ==
    Call(chainId, vault, "activateConversions", << >>)

TreasuryWithdrawBuildable(amountNative) == amountNative > 0

BuildTreasuryWithdrawCall(chainId, treasury, recipient, amountNative) ==
    Call(chainId, treasury, "withdraw", <<recipient, amountNative>>)

(* The arguments of a Mint in one parameter: its calldata without the      *)
(* selector.                                                               *)
BuildEncodedMintCall(call) == [call EXCEPT !.function = "mintEncoded", !.args = <<@>>]

-----------------------------------------------------------------------------
(* Circle takes every argument as a string, so that a tuple or an array    *)
(* cannot be passed.  Of the frozen ABI these functions have one.          *)
Compound == {"mint", "registerContent", "registerEpoch", "registerWorkConfig"}

AssertCall(call, driver) == call.chainId = driver.chainId /\ call.valueNative >= 0

(* The registrar of content is asked which Mirror it forwards to.          *)
ForwardsTo(registrar, mirror, mirrorOf) ==
    /\ registrar # Unset
    /\ registrar \in DOMAIN mirrorOf /\ mirrorOf[registrar] = mirror

Executable(call, driver, mirrorOf) ==
    /\ AssertCall(call, driver)
    /\ call.function = "registerContent" => ForwardsTo(driver.registrar, call.to, mirrorOf)

ExecutableCall(call, driver) ==
    CASE call.function = "mint" -> BuildEncodedMintCall(call)
      [] call.function = "registerContent" ->
             [call EXCEPT !.to = driver.registrar, !.function = "registerEncoded",
                          !.args = <<@>>]
      [] OTHER -> call

(* What the Controller and the registrar do with an encoded payload.       *)
Effect(call, mirrorOf) ==
    CASE call.function = "mintEncoded" ->
             [call EXCEPT !.function = "mint", !.args = call.args[1]]
      [] call.function = "registerEncoded" ->
             [call EXCEPT !.to = mirrorOf[call.to], !.function = "registerContent",
                          !.args = call.args[1]]
      [] OTHER -> call

-----------------------------------------------------------------------------
(* Fees: the gas limit, and the most that the gas may cost.                *)
ChainQuote(gas, price) == [gasLimit |-> gas, maxGasNative |-> gas * price]

(* chainFeeQuote: a fifth more than the chain's estimate.                  *)
ChainFeeQuote(gas, price) == ChainQuote((gas * 12) \div 10, price)

(* estimate: Circle's medium tier, or the chain's if there is none, or if  *)
(* a number in it is missing.                                              *)
Estimate(circle, gas, price) ==
    IF circle = Unset \/ circle.gasLimit = Unset \/ circle.networkFee = Unset
    THEN ChainFeeQuote(gas, price)
    ELSE [gasLimit |-> circle.gasLimit, maxGasNative |-> circle.networkFee]

-----------------------------------------------------------------------------
(* Capabilities. *)
CapabilityNames ==
    {"chain", "nativeValue", "erc721Receive", "authenticationSignature",
     "contractAllowlist", "selectorAllowlist", "perCallValueLimit",
     "cumulativeValueLimit", "mintCountLimit", "gasLimit", "expiry", "revocation",
     "idempotentSubmission"}

Supported(enforcement, evidence) ==
    [supported |-> TRUE, enforcement |-> enforcement, evidenceRef |-> evidence]

Unsupported(evidence) ==
    [supported |-> FALSE, enforcement |-> "none", evidenceRef |-> evidence]

(* The same four for an account of this process and one of the node.       *)
EoaCapabilities(evidence) ==
    [name \in CapabilityNames |->
        IF name \in {"chain", "nativeValue", "erc721Receive", "authenticationSignature"}
        THEN Supported("account", evidence) ELSE Unsupported(evidence)]

CircleCapabilities(evidence) ==
    [name \in CapabilityNames |->
        CASE name = "chain" -> Supported("account", evidence)
          [] name \in {"nativeValue", "authenticationSignature", "idempotentSubmission"} ->
                 Supported("wallet", evidence)
          [] OTHER -> Unsupported(evidence)]

IsHardCapability(capability) ==
    /\ capability.supported
    /\ capability.evidenceRef # Unset
    /\ capability.enforcement \in {"wallet", "account"}

UnattendedReady(capabilities) ==
    \A name \in CapabilityNames : IsHardCapability(capabilities[name])

(* preflightConfig: what a Mint asks of the wallet.                        *)
PreflightWallet(manifest, wallet, unattended, authorization, now) ==
    /\ wallet.chainId = manifest.chainId
    /\ wallet.balance >= MintFee
    /\ wallet.address = wallet.addressNow
    /\ unattended =>
           \/ UnattendedReady(wallet.capabilities)
           \/ /\ authorization # Unset
              /\ ~authorization.revoked
              /\ authorization.enforcement = "session"
              /\ now < authorization.expiresAt

-----------------------------------------------------------------------------
(* Handles: what a submission returns, and what is asked of it later.      *)
HandleKind(adapter) ==
    CASE adapter.kind = "provider" -> "provider-operation"
      [] adapter.kind = "user-operation" -> "user-operation"
      [] OTHER -> "transaction"

Handle(adapter, requestId, id) ==
    [kind |-> HandleKind(adapter), provider |-> adapter.provider, requestId |-> requestId,
     id |-> id]

(* An adapter answers UNKNOWN for a handle that is not of its kind.        *)
Recognizes(adapter, handle) ==
    /\ handle.kind = HandleKind(adapter)
    /\ adapter.kind = "provider" => handle.provider = adapter.provider
=============================================================================
