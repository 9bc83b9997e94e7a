------------------------------ MODULE Protocol ------------------------------
(***************************************************************************)
(* What the parties of a Mint compute alike (packages/protocol): Pi        *)
(* content and its Merkle proofs, the hashes that bind a challenge, a      *)
(* certificate, a WorkConfig and an epoch, and the times they are good     *)
(* for; and the checks the agent makes with them (apps/cli/src/trust.ts,   *)
(* agent.ts).                                                              *)
(*                                                                         *)
(* keccak256 is free of collisions: a hash is the term it was made of,     *)
(* headed by its domain.  Bytes32 and addresses are values that are only   *)
(* compared.                                                               *)
(***************************************************************************)
EXTENDS Integers, Sequences

CONSTANTS
    MaxArcals,   \* 1,000,000 in the code
    TreeHeight,  \* of the Pi tree, 20 in the code
    Uint64Max, Uint256Max,
    MintFee,     \* MINT_FEE_NATIVE
    HalfOrder    \* half the order of secp256k1, which is odd

ASSUME ProtocolAssumption ==
    /\ MaxArcals \in Nat \ {0} /\ TreeHeight \in Nat /\ MaxArcals <= 2 ^ TreeHeight
    /\ Uint64Max \in Nat /\ Uint256Max \in Nat
    /\ MintFee \in Nat /\ HalfOrder \in Nat \ {0}

ProtocolVersion == 1
LagMargin == 120   \* EXECUTOR_LAG_MARGIN_SECONDS

-----------------------------------------------------------------------------
(* Pi content.  Arcal id has 360 digits, two in a byte. *)
PiDigitsPerArcal == 360
PackedPiBytes == 180

ArcalIds == 1..MaxArcals
Digits == [1..PiDigitsPerArcal -> 0..9]
Packed == [1..PackedPiBytes -> 0..255]

PiRange(id) ==
    [startDigit |-> (id - 1) * PiDigitsPerArcal + 1, endDigit |-> id * PiDigitsPerArcal]

PackPiDigits(digits) ==
    [i \in 1..PackedPiBytes |-> 16 * digits[2 * i - 1] + digits[2 * i]]

ValidPackedPiDigits(packed) ==
    packed \in Packed /\ \A i \in 1..PackedPiBytes : packed[i] \div 16 <= 9 /\ packed[i] % 16 <= 9

UnpackPiDigits(packed) ==
    [k \in 1..PiDigitsPerArcal |->
        IF k % 2 = 1 THEN packed[(k + 1) \div 2] \div 16 ELSE packed[k \div 2] % 16]

PiContentHash(packed) == <<"content", packed>>
PiLeaf(id, contentHash) == <<"0x00", id, contentHash>>
PiNode(left, right) == <<"0x01", left, right>>
PiEmptyLeaf(index) == <<"0x02", index>>   \* MaxArcals <= index < 2 ^ TreeHeight

ComputePiRootFromProof(id, contentHash, proof) ==
    LET right(k) == ((id - 1) \div (2 ^ (k - 1))) % 2 = 1
        current[k \in 0..Len(proof)] ==
            IF k = 0 THEN PiLeaf(id, contentHash)
            ELSE IF right(k) THEN PiNode(proof[k], current[k - 1])
            ELSE PiNode(current[k - 1], proof[k])
    IN  current[Len(proof)]

VerifyPiProof(id, packed, proof, expectedRoot) ==
    /\ id \in ArcalIds /\ Len(proof) = TreeHeight
    /\ ValidPackedPiDigits(packed)
    /\ ComputePiRootFromProof(id, PiContentHash(packed), proof) = expectedRoot

-----------------------------------------------------------------------------
(* Hashes.  The functions throw on a field that is out of its range.       *)
Uint64(n) == 0 <= n /\ n <= Uint64Max
Uint256(n) == 0 <= n /\ n <= Uint256Max

HashDomain(domain) == <<"EIP712Domain", domain.chainId, domain.verifyingContract>>
HashTypedData(domainSeparator, structHash) == <<"0x1901", domainSeparator, structHash>>

(* What the miner searches for: it binds the work to one wallet, one epoch *)
(* and one configuration, and leaves the window and the fee open.          *)
ChallengeInput(chainId, controller, c) ==
    <<"ARCALS_WORK_INPUT_V1", chainId, controller, c.challengeId, c.epochId, c.minter,
      c.mintNonce, c.configDigest>>

ChallengeHashable(c) ==
    /\ c.protocolVersion = ProtocolVersion
    /\ Uint64(c.epochId) /\ Uint64(c.validAfter) /\ Uint64(c.expiresAt)
    /\ Uint64(c.signerVersion) /\ Uint256(c.mintNonce) /\ Uint256(c.mintFee)

HashChallengeStruct(c) ==
    <<"Challenge", c.protocolVersion, c.configDigest, c.challengeId, c.epochId, c.minter,
      c.mintNonce, c.challengeInput, c.mintFee, c.validAfter, c.expiresAt, c.signerVersion>>

CertificateHashable(c) ==
    /\ c.protocolVersion = ProtocolVersion
    /\ Uint64(c.workNonce) /\ Uint64(c.issuedAt) /\ Uint64(c.expiresAt)
    /\ Uint64(c.signerVersion)

HashWorkCertificateStruct(c) ==
    <<"WorkCertificate", c.protocolVersion, c.challengeHash, c.workNonce, c.randomxHash,
      c.issuedAt, c.expiresAt, c.signerVersion>>

HashChallengeTypedData(domain, c) == HashTypedData(HashDomain(domain), HashChallengeStruct(c))
HashWorkCertificateTypedData(domain, c) ==
    HashTypedData(HashDomain(domain), HashWorkCertificateStruct(c))

WorkConfigHashable(c) ==
    /\ c.protocolVersion = ProtocolVersion
    /\ \A n \in {c.epochSeconds, c.keyLeadSeconds, c.maxChallengeTtl, c.maxCertificateTtl,
                  c.effectiveEpoch} : Uint64(n)
    /\ Uint256(c.target)

HashWorkConfig(c) ==
    <<"WorkConfigV1", c.protocolVersion, c.algorithmId, c.parameterDigest, c.epochSeconds,
      c.keyLeadSeconds, c.maxChallengeTtl, c.maxCertificateTtl, c.target, c.effectiveEpoch>>

DeriveEpochKey(chainId, controller, epochId, anchorBlockNumber, anchorBlockHash) ==
    <<"ARCALS_RANDOMX_EPOCH_V1", chainId, controller, epochId, anchorBlockNumber,
      anchorBlockHash>>

(* setBigUint64, little-endian: a nonce of 64 bits in 8 bytes. *)
Shift(n) == n \div 256
LittleEndian(n) ==
    LET n1 == Shift(n)   n2 == Shift(n1)  n3 == Shift(n2)  n4 == Shift(n3)
        n5 == Shift(n4)  n6 == Shift(n5)  n7 == Shift(n6)
    IN  <<n % 256, n1 % 256, n2 % 256, n3 % 256, n4 % 256, n5 % 256, n6 % 256, n7 % 256>>

BuildRandomXInput(challengeInput, workNonce) == <<challengeInput, LittleEndian(workNonce)>>

IsHashAtOrBelowTarget(randomxHash, target) == randomxHash <= target

CanonicalEcdsaSignature(r, s, v) ==
    r # 0 /\ s # 0 /\ s <= HalfOrder /\ v \in {27, 28}

-----------------------------------------------------------------------------
(* Times, in seconds; a verification starts at a time in milliseconds.     *)
Later(a, b) == IF a < b THEN b ELSE a

CertificateIssuedAt(verificationStartedAtMs, validAfter) ==
    Later((verificationStartedAtMs \div 1000) - LagMargin, validAfter)

ChallengeValidAfter(headBlockTimestamp, epochValidFrom) ==
    Later(IF headBlockTimestamp < LagMargin THEN 0 ELSE headBlockTimestamp - LagMargin,
          epochValidFrom)

(* The context: now, epochEnd, maxChallengeTtl, maxCertificateTtl and      *)
(* signerVersion.                                                          *)
ValidChallengeWindow(challenge, context) ==
    /\ challenge.protocolVersion = ProtocolVersion
    /\ challenge.mintFee = MintFee
    /\ challenge.signerVersion = context.signerVersion
    /\ challenge.validAfter <= context.now /\ context.now < challenge.expiresAt
    /\ challenge.expiresAt - challenge.validAfter <= context.maxChallengeTtl
    /\ challenge.expiresAt <= context.epochEnd

ValidCertificateWindow(challenge, certificate, context) ==
    /\ certificate.protocolVersion = ProtocolVersion
    /\ certificate.signerVersion = context.signerVersion
    /\ challenge.validAfter <= certificate.issuedAt
    /\ certificate.issuedAt <= context.now /\ context.now < certificate.expiresAt
    /\ certificate.expiresAt - certificate.issuedAt <= context.maxCertificateTtl
    /\ certificate.expiresAt <= challenge.expiresAt
    /\ certificate.expiresAt <= context.epochEnd
    /\ certificate.expiresAt <= Uint64Max

-----------------------------------------------------------------------------
(* Manifests of a deployment.  An environment is a chain and its Core.     *)
Contracts == {"core", "base", "mirror", "vault", "controller", "treasury"}

EnvironmentId(chainId, core) == <<chainId, core>>

(* What of a manifest is free: addresses are not zero, digests are hex,    *)
(* numbers are canonical.  A repository authorizes no production.          *)
ParsedDeploymentManifest(manifest, expectedEnvironmentId) ==
    LET at == manifest.contracts
    IN  /\ manifest.protocolVersion = ProtocolVersion
        /\ manifest.mode \in {"local-fixture", "testnet"}
        /\ ~manifest.productionAuthorized
        /\ \A name \in Contracts : at[name] # "0x0"
        /\ \A one, other \in Contracts : at[one] = at[other] => one = other
        /\ manifest.environmentId = EnvironmentId(manifest.chainId, at["core"])
        /\ manifest.environmentId = expectedEnvironmentId

-----------------------------------------------------------------------------
(* The agent's checks. *)

(* The config the API answers with, against the manifest: an epoch and its *)
(* WorkConfig must be there, and be what their digest and key say.         *)
VerifyApiConfiguration(manifest, config) ==
    LET work == config.workConfig
        epoch == config.epoch
    IN  /\ config.environmentId = manifest.environmentId
        /\ config.chainId = manifest.chainId
        /\ \A name \in Contracts : config.deployment[name] = manifest.deployment[name]
        /\ config.piRoot = manifest.piRoot
        /\ config.active
        /\ work.algorithmId = manifest.algorithmId
        /\ work.parameterDigest = manifest.parameterDigest
        /\ epoch.configDigest = work.configDigest
        /\ WorkConfigHashable(work) /\ HashWorkConfig(work) = work.configDigest
        /\ Uint64(epoch.epochId) /\ Uint64(epoch.anchorBlockNumber)
        /\ DeriveEpochKey(manifest.chainId, manifest.deployment["controller"], epoch.epochId,
                          epoch.anchorBlockNumber, epoch.anchorBlockHash) = epoch.epochKey

(* The contracts at the manifest's addresses: there is code, and they name *)
(* each other, the fee, the UNIT and the Pi root.                          *)
VerifyOnchainDeployment(manifest, chain) ==
    LET at == manifest.deployment
    IN  /\ chain.chainId = manifest.chainId
        /\ \A name \in Contracts : at[name] \in chain.code
        /\ \A name \in Contracts \ {"core"} : chain.core[name] = at[name]
        /\ chain.pairedMirror = at["mirror"] /\ chain.pairedBase = at["base"]
        /\ chain.fee = MintFee /\ chain.unitsAgree
        /\ chain.datasetRoot = manifest.piRoot
=============================================================================
