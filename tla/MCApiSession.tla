---------------------------- MODULE MCApiSession ----------------------------
(* Two processes of one wallet, see ApiSession.cfg.  What a preflight may  *)
(* hear is the truth, or the truth but for one thing.                      *)
EXTENDS ApiSession, TLC
CONSTANTS p1, p2

MCManifest ==
    [protocolVersion |-> 1, mode |-> "testnet", productionAuthorized |-> FALSE,
     chainId |-> 5, environmentId |-> EnvironmentId(5, "core"), piRoot |-> "pi",
     deployment |-> [name \in Contracts |-> name], contracts |-> [name \in Contracts |-> name],
     algorithmId |-> "randomx", parameterDigest |-> "salt"]

Work ==
    [protocolVersion |-> 1, algorithmId |-> "randomx", parameterDigest |-> "salt",
     epochSeconds |-> 9, keyLeadSeconds |-> 1, maxChallengeTtl |-> 3, maxCertificateTtl |-> 2,
     target |-> 7, effectiveEpoch |-> 0]
Digested(work) ==
    [name \in DOMAIN work \cup {"configDigest"} |->
        IF name = "configDigest" THEN HashWorkConfig(work) ELSE work[name]]
Config(work, epochId) ==
    [environmentId |-> EnvironmentId(5, "core"), chainId |-> 5,
     deployment |-> [name \in Contracts |-> name], piRoot |-> "pi", active |-> TRUE,
     workConfig |-> Digested(work),
     epoch |-> [configDigest |-> HashWorkConfig(work), epochId |-> epochId,
                anchorBlockNumber |-> 3, anchorBlockHash |-> "hash",
                epochKey |-> DeriveEpochKey(5, "controller", epochId, 3, "hash")]]
Genuine == {Config(Work, 1), Config([Work EXCEPT !.target = 6], 2)}
MCConfigs ==
    Genuine \cup UNION {
        {[c EXCEPT !.environmentId = EnvironmentId(5, "base")], [c EXCEPT !.chainId = 6],
         [c EXCEPT !.deployment["treasury"] = "vault"], [c EXCEPT !.piRoot = "tau"],
         [c EXCEPT !.active = FALSE], [c EXCEPT !.workConfig.algorithmId = "sha"],
         [c EXCEPT !.workConfig.target = 9], [c EXCEPT !.epoch.epochId = 3],
         [c EXCEPT !.epoch.configDigest = HashWorkConfig([Work EXCEPT !.target = 5])],
         [c EXCEPT !.epoch.anchorBlockHash = "other"]} : c \in Genuine}

Deployed ==
    [chainId |-> 5, code |-> Contracts, core |-> [name \in Contracts \ {"core"} |-> name],
     pairedMirror |-> "mirror", pairedBase |-> "base", fee |-> MintFee, unitsAgree |-> TRUE,
     datasetRoot |-> "pi"]
MCChains ==
    {Deployed, [Deployed EXCEPT !.chainId = 6], [Deployed EXCEPT !.code = @ \ {"vault"}],
     [Deployed EXCEPT !.core["treasury"] = "other"], [Deployed EXCEPT !.pairedBase = "other"],
     [Deployed EXCEPT !.fee = 0], [Deployed EXCEPT !.datasetRoot = "tau"]}

Ready ==
    [chainId |-> 5, balance |-> MintFee, address |-> "w", addressNow |-> "w",
     capabilities |-> CircleCapabilities("circle"), unattended |-> FALSE,
     authorization |-> Unset, now |-> 4]
Session == [revoked |-> FALSE, enforcement |-> "session", expiresAt |-> 5]
Allowed ==
    {Ready, [Ready EXCEPT !.unattended = TRUE, !.authorization = Session],
     [Ready EXCEPT !.unattended = TRUE,
                   !.capabilities = [n \in CapabilityNames |-> Supported("wallet", "policy")]]}
MCWallets ==
    Allowed \cup
    {[Ready EXCEPT !.chainId = 6], [Ready EXCEPT !.balance = 0],
     [Ready EXCEPT !.addressNow = "v"], [Ready EXCEPT !.unattended = TRUE],
     [Ready EXCEPT !.unattended = TRUE, !.authorization = Session, !.now = 5],
     [Ready EXCEPT !.unattended = TRUE, !.authorization = [Session EXCEPT !.revoked = TRUE]]}

ASSUME OnlyTheTruthPasses ==
    /\ ParsedDeploymentManifest(MCManifest, EnvironmentId(5, "core"))
    /\ {<<w, c, d>> \in MCWallets \X MCConfigs \X MCChains :
            /\ PreflightWallet(MCManifest, w, w.unattended, w.authorization, w.now)
            /\ VerifyApiConfiguration(MCManifest, c)
            /\ VerifyOnchainDeployment(MCManifest, d)} = Allowed \X Genuine \X {Deployed}

-----------------------------------------------------------------------------
(* Algorithms against references.  Digits by a sequence that is not        *)
(* periodic in bytes, proofs against the tree they are of.                 *)
Sample(k) == [i \in 1..PiDigitsPerArcal |-> (i * i + k * i + i \div 7) % 10]

ASSUME DigitsReturn ==
    \A k \in 0..9 : /\ ValidPackedPiDigits(PackPiDigits(Sample(k)))
                    /\ UnpackPiDigits(PackPiDigits(Sample(k))) = Sample(k)

Content(id) == PackPiDigits(Sample(id))
Level[h \in 0..TreeHeight] ==
    [i \in 0..(2 ^ (TreeHeight - h) - 1) |->
        IF h > 0 THEN PiNode(Level[h - 1][2 * i], Level[h - 1][2 * i + 1])
        ELSE IF i < MaxArcals THEN PiLeaf(i + 1, PiContentHash(Content(i + 1)))
        ELSE PiEmptyLeaf(i)]
Sibling(i) == IF i % 2 = 0 THEN i + 1 ELSE i - 1
Proof(id) == [h \in 1..TreeHeight |-> Level[h - 1][Sibling((id - 1) \div 2 ^ (h - 1))]]

ASSUME ProofsAreOfTheirArcal ==
    \A id, of, content \in ArcalIds :
        VerifyPiProof(id, Content(content), Proof(of), Level[TreeHeight][0])
            <=> id = of /\ content = id

ASSUME NoncesReturn ==
    \A n \in {0, 1, 255, 256, 65535, 65536, 16777216, 2147483647} :
        LET b == LittleEndian(n)
        IN  /\ b \in [1..8 -> 0..255]
            /\ n = ((b[4] * 256 + b[3]) * 256 + b[2]) * 256 + b[1]
=============================================================================
