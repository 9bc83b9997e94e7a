--------------------------- MODULE ProtocolProofs ---------------------------
(***************************************************************************)
(* What the parties of a Mint rely on, for every Arcal, nonce, time and    *)
(* call: theorems about Protocol and WalletCalls.  And about ApiSession:   *)
(* that the API does each write once, for any processes and retries.       *)
(***************************************************************************)
EXTENDS ApiSession, FiniteSetTheorems, TLAPS

-----------------------------------------------------------------------------
(* Every digit of Pi up to the last Arcal's belongs to exactly one Arcal   *)
(* (piRange, pi.ts).                                                       *)
THEOREM DigitsAreOfOneArcal ==
    \A k \in 1..(MaxArcals * PiDigitsPerArcal) :
        \E id \in ArcalIds :
            \A other \in ArcalIds :
                (PiRange(other).startDigit <= k /\ k <= PiRange(other).endDigit)
                    <=> other = id
<1>0. MaxArcals \in Nat
  BY ProtocolAssumption
<1> SUFFICES ASSUME NEW k \in 1..(MaxArcals * 360)
    PROVE  \E id \in ArcalIds :
               \A other \in ArcalIds :
                   (PiRange(other).startDigit <= k /\ k <= PiRange(other).endDigit)
                       <=> other = id
  BY DEF PiDigitsPerArcal
<1> DEFINE id == ((k - 1) \div 360) + 1
<1>1. id \in Int /\ (id - 1) * 360 < k /\ k <= id * 360
  BY <1>0
<1>2. id \in ArcalIds
  BY <1>0, <1>1 DEF ArcalIds
<1>3. ASSUME NEW other \in ArcalIds
      PROVE  (PiRange(other).startDigit <= k /\ k <= PiRange(other).endDigit) <=> other = id
  <2>1. other \in Int
    BY <1>0 DEF ArcalIds
  <2>2. /\ PiRange(other).startDigit = (other - 1) * 360 + 1
        /\ PiRange(other).endDigit = other * 360
    BY DEF PiRange, PiDigitsPerArcal
  <2> HIDE DEF id
  <2> QED BY <1>0, <1>1, <2>1, <2>2
<1> HIDE DEF id
<1> QED BY <1>2, <1>3

(* A byte holds its two digits. *)
LEMMA NibblesReturn ==
    ASSUME NEW high \in 0..9, NEW low \in 0..9
    PROVE  /\ 16 * high + low \in 0..255
           /\ (16 * high + low) \div 16 = high
           /\ (16 * high + low) % 16 = low
  OBVIOUS

(* Packing keeps every digit, and what it gives is valid: packPiDigits,    *)
(* validatePackedPiDigits and unpackPiDigits agree.                        *)
THEOREM PackingReturns ==
    \A digits \in Digits :
        /\ ValidPackedPiDigits(PackPiDigits(digits))
        /\ UnpackPiDigits(PackPiDigits(digits)) = digits
<1> SUFFICES ASSUME NEW digits \in Digits
    PROVE  /\ ValidPackedPiDigits(PackPiDigits(digits))
           /\ UnpackPiDigits(PackPiDigits(digits)) = digits
  OBVIOUS
<1> DEFINE packed == PackPiDigits(digits)
<1>1. ASSUME NEW i \in 1..180
      PROVE  /\ packed[i] = 16 * digits[2 * i - 1] + digits[2 * i]
             /\ digits[2 * i - 1] \in 0..9 /\ digits[2 * i] \in 0..9
             /\ packed[i] \in 0..255
             /\ packed[i] \div 16 = digits[2 * i - 1] /\ packed[i] % 16 = digits[2 * i]
  <2>1. packed[i] = 16 * digits[2 * i - 1] + digits[2 * i]
    BY DEF PackPiDigits, PackedPiBytes
  <2>2. digits[2 * i - 1] \in 0..9 /\ digits[2 * i] \in 0..9
    <3>1. 2 * i - 1 \in 1..360 /\ 2 * i \in 1..360
      OBVIOUS
    <3> QED BY <3>1 DEF Digits, PiDigitsPerArcal
  <2> QED BY <2>1, <2>2, NibblesReturn
<1>2. packed \in Packed
  <2>1. packed = [i \in 1..180 |-> packed[i]]
    BY DEF PackPiDigits, PackedPiBytes
  <2> HIDE DEF packed
  <2> QED BY <1>1, <2>1 DEF Packed, PackedPiBytes
<1>3. ValidPackedPiDigits(packed)
  <2> HIDE DEF packed
  <2>1. ASSUME NEW i \in 1..180 PROVE packed[i] \div 16 <= 9 /\ packed[i] % 16 <= 9
    <3>1. packed[i] \div 16 \in 0..9 /\ packed[i] % 16 \in 0..9
      BY <1>1, Zenon
    <3> QED BY <3>1
  <2> QED BY <1>2, <2>1 DEF ValidPackedPiDigits, PackedPiBytes
<1>4. ASSUME NEW k \in 1..360 PROVE UnpackPiDigits(packed)[k] = digits[k]
  <2>1. UnpackPiDigits(packed)[k] = IF k % 2 = 1 THEN packed[(k + 1) \div 2] \div 16
                                    ELSE packed[k \div 2] % 16
    BY DEF UnpackPiDigits, PiDigitsPerArcal
  <2> HIDE DEF packed
  <2>2. CASE k % 2 = 1
    <3>1. (k + 1) \div 2 \in 1..180 /\ 2 * ((k + 1) \div 2) - 1 = k
      BY <2>2
    <3> QED BY <1>1, <2>1, <2>2, <3>1
  <2>3. CASE k % 2 # 1
    <3>1. k \div 2 \in 1..180 /\ 2 * (k \div 2) = k
      BY <2>3
    <3> QED BY <1>1, <2>1, <2>3, <3>1
  <2> QED BY <2>2, <2>3
<1>5. UnpackPiDigits(packed) = digits
  <2>1. /\ UnpackPiDigits(packed) = [k \in 1..360 |-> UnpackPiDigits(packed)[k]]
        /\ digits = [k \in 1..360 |-> digits[k]]
    BY DEF UnpackPiDigits, Digits, PiDigitsPerArcal
  <2> HIDE DEF packed
  <2> QED BY <1>4, <2>1
<1> QED BY <1>3, <1>5

(* The miner hands different inputs to different nonces of 64 bits         *)
(* (buildRandomXInput, appendNonceLittleEndian): no bit is lost on the way *)
(* into the eight bytes.                                                   *)
LEMMA BytesReturn ==
    ASSUME NEW n \in Nat
    PROVE  Shift(n) \in Nat /\ n % 256 \in 0..255 /\ n = 256 * Shift(n) + (n % 256)
  BY DEF Shift

LEMMA BytesOfEqual ==
    ASSUME NEW a1, NEW a2, NEW a3, NEW a4, NEW a5, NEW a6, NEW a7, NEW a8,
           NEW b1, NEW b2, NEW b3, NEW b4, NEW b5, NEW b6, NEW b7, NEW b8,
           <<a1, a2, a3, a4, a5, a6, a7, a8>> = <<b1, b2, b3, b4, b5, b6, b7, b8>>
    PROVE  /\ a1 = b1 /\ a2 = b2 /\ a3 = b3 /\ a4 = b4
           /\ a5 = b5 /\ a6 = b6 /\ a7 = b7 /\ a8 = b8
  OBVIOUS

LEMMA SameBytes ==
    ASSUME NEW n \in Nat, NEW m \in Nat, Shift(n) = Shift(m), n % 256 = m % 256
    PROVE  n = m
<1>1. n = 256 * Shift(n) + (n % 256) /\ m = 256 * Shift(m) + (m % 256)
  BY BytesReturn
<1> QED BY <1>1

LEMMA ShiftShrinks ==
    ASSUME NEW n \in Nat, NEW bound \in Nat, n < 256 * bound
    PROVE  Shift(n) \in Nat /\ Shift(n) < bound
  BY DEF Shift

LEMMA EighthByte ==
    ASSUME NEW n \in Nat,
           n < 256 * (256 * (256 * (256 * (256 * (256 * (256 * 256))))))
    PROVE  Shift(Shift(Shift(Shift(Shift(Shift(Shift(n))))))) < 256
<1>1. /\ Shift(n) \in Nat
      /\ Shift(n) < 256 * (256 * (256 * (256 * (256 * (256 * 256)))))
  BY ShiftShrinks
<1>2. /\ Shift(Shift(n)) \in Nat
      /\ Shift(Shift(n)) < 256 * (256 * (256 * (256 * (256 * 256))))
  BY <1>1, ShiftShrinks
<1>3. /\ Shift(Shift(Shift(n))) \in Nat
      /\ Shift(Shift(Shift(n))) < 256 * (256 * (256 * (256 * 256)))
  BY <1>2, ShiftShrinks
<1>4. /\ Shift(Shift(Shift(Shift(n)))) \in Nat
      /\ Shift(Shift(Shift(Shift(n)))) < 256 * (256 * (256 * 256))
  BY <1>3, ShiftShrinks
<1>5. /\ Shift(Shift(Shift(Shift(Shift(n))))) \in Nat
      /\ Shift(Shift(Shift(Shift(Shift(n))))) < 256 * (256 * 256)
  BY <1>4, ShiftShrinks
<1>6. /\ Shift(Shift(Shift(Shift(Shift(Shift(n)))))) \in Nat
      /\ Shift(Shift(Shift(Shift(Shift(Shift(n)))))) < 256 * 256
  BY <1>5, ShiftShrinks
<1> QED BY <1>6, ShiftShrinks

(* Two nonces of 64 bits never give one RandomX input (buildRandomXInput,  *)
(* encoding.ts).                                                           *)
THEOREM NoncesDiffer ==
    ASSUME Uint64Max + 1 = 256 * (256 * (256 * (256 * (256 * (256 * (256 * 256)))))),
           NEW challengeInput, NEW n \in Nat, NEW m \in Nat, Uint64(n), Uint64(m),
           BuildRandomXInput(challengeInput, n) = BuildRandomXInput(challengeInput, m)
    PROVE  n = m
<1> DEFINE n1 == Shift(n)   n2 == Shift(n1)   n3 == Shift(n2)   n4 == Shift(n3)
           n5 == Shift(n4)  n6 == Shift(n5)   n7 == Shift(n6)
           m1 == Shift(m)   m2 == Shift(m1)   m3 == Shift(m2)   m4 == Shift(m3)
           m5 == Shift(m4)  m6 == Shift(m5)   m7 == Shift(m6)
<1>1. LittleEndian(n) = LittleEndian(m)
  BY DEF BuildRandomXInput
<1>2. /\ LittleEndian(n) = <<n % 256, n1 % 256, n2 % 256, n3 % 256, n4 % 256, n5 % 256,
                             n6 % 256, n7 % 256>>
      /\ LittleEndian(m) = <<m % 256, m1 % 256, m2 % 256, m3 % 256, m4 % 256, m5 % 256,
                             m6 % 256, m7 % 256>>
  BY Zenon DEF LittleEndian
<1>3. n7 < 256 /\ m7 < 256
  <2>1. /\ n < 256 * (256 * (256 * (256 * (256 * (256 * (256 * 256))))))
        /\ m < 256 * (256 * (256 * (256 * (256 * (256 * (256 * 256))))))
    BY ProtocolAssumption DEF Uint64
  <2> QED BY <2>1, EighthByte
<1> HIDE DEF n1, n2, n3, n4, n5, n6, n7, m1, m2, m3, m4, m5, m6, m7
<1>4. /\ n % 256 = m % 256 /\ n1 % 256 = m1 % 256 /\ n2 % 256 = m2 % 256
      /\ n3 % 256 = m3 % 256 /\ n4 % 256 = m4 % 256 /\ n5 % 256 = m5 % 256
      /\ n6 % 256 = m6 % 256 /\ n7 % 256 = m7 % 256
  <2>1. <<n % 256, n1 % 256, n2 % 256, n3 % 256, n4 % 256, n5 % 256, n6 % 256, n7 % 256>>
            = <<m % 256, m1 % 256, m2 % 256, m3 % 256, m4 % 256, m5 % 256, m6 % 256, m7 % 256>>
    BY <1>1, <1>2, Zenon
  <2> QED BY <2>1, BytesOfEqual
<1>5. n1 \in Nat /\ m1 \in Nat
  BY BytesReturn DEF n1, m1
<1>6. n2 \in Nat /\ m2 \in Nat
  BY <1>5, BytesReturn DEF n2, m2
<1>7. n3 \in Nat /\ m3 \in Nat
  BY <1>6, BytesReturn DEF n3, m3
<1>8. n4 \in Nat /\ m4 \in Nat
  BY <1>7, BytesReturn DEF n4, m4
<1>9. n5 \in Nat /\ m5 \in Nat
  BY <1>8, BytesReturn DEF n5, m5
<1>10. n6 \in Nat /\ m6 \in Nat
  BY <1>9, BytesReturn DEF n6, m6
<1>11. n7 \in Nat /\ m7 \in Nat
  BY <1>10, BytesReturn DEF n7, m7
<1>12. n7 = m7
  BY <1>3, <1>4, <1>11
<1>13. n6 = m6
  BY <1>4, <1>10, <1>12, SameBytes, Zenon DEF n7, m7
<1>14. n5 = m5
  BY <1>4, <1>9, <1>13, SameBytes, Zenon DEF n6, m6
<1>15. n4 = m4
  BY <1>4, <1>8, <1>14, SameBytes, Zenon DEF n5, m5
<1>16. n3 = m3
  BY <1>4, <1>7, <1>15, SameBytes, Zenon DEF n4, m4
<1>17. n2 = m2
  BY <1>4, <1>6, <1>16, SameBytes, Zenon DEF n3, m3
<1>18. n1 = m1
  BY <1>4, <1>5, <1>17, SameBytes, Zenon DEF n2, m2
<1> QED BY <1>4, <1>18, SameBytes, Zenon DEF n1, m1

(* Of the two values of s with which a signature by one key verifies, at   *)
(* most one is accepted (assertCanonicalEcdsaSignature).                   *)
THEOREM SignatureIsOne ==
    ASSUME NEW r, NEW s \in Int, NEW v, NEW w, CanonicalEcdsaSignature(r, s, v)
    PROVE  ~CanonicalEcdsaSignature(r, (2 * HalfOrder + 1) - s, w)
  BY ProtocolAssumption DEF CanonicalEcdsaSignature

(* A challenge that the backend dates with challengeValidAfter is good for *)
(* a node whose block is up to the lag margin behind the backend's, once   *)
(* the epoch has begun: "the controller rejects a Challenge whose          *)
(* validAfter is newer than the block executing it" (constants.ts).        *)
THEOREM LaggingNodeTakesChallenge ==
    ASSUME NEW head \in Nat, NEW epochValidFrom \in Nat, NEW challenge, NEW context,
           challenge.protocolVersion = ProtocolVersion, challenge.mintFee = MintFee,
           challenge.signerVersion = context.signerVersion,
           context.now \in Nat, context.maxChallengeTtl \in Nat, context.epochEnd \in Nat,
           challenge.validAfter = ChallengeValidAfter(head, epochValidFrom),
           challenge.expiresAt \in Nat,
           challenge.expiresAt <= challenge.validAfter + context.maxChallengeTtl,
           challenge.expiresAt <= context.epochEnd,
           head - LagMargin <= context.now, epochValidFrom <= context.now,
           context.now < challenge.expiresAt
    PROVE  ValidChallengeWindow(challenge, context)
<1>1. challenge.validAfter \in Nat /\ challenge.validAfter <= context.now
  BY DEF ChallengeValidAfter, Later, LagMargin
<1> QED BY <1>1 DEF ValidChallengeWindow

(* The same for the certificate: a node at most a lag margin behind the    *)
(* verifier's clock takes it, as it takes the challenge.  In exchange, one *)
(* that is dated back has its life cut by the margin.                      *)
THEOREM LaggingNodeTakesCertificate ==
    ASSUME NEW startedAtMs \in Nat, NEW challenge, NEW certificate, NEW context,
           certificate.protocolVersion = ProtocolVersion,
           certificate.signerVersion = context.signerVersion,
           context.now \in Nat, context.maxCertificateTtl \in Nat,
           context.epochEnd \in Nat, challenge.expiresAt \in Nat,
           challenge.validAfter \in Nat,
           certificate.issuedAt = CertificateIssuedAt(startedAtMs, challenge.validAfter),
           certificate.expiresAt \in Nat,
           certificate.expiresAt <= certificate.issuedAt + context.maxCertificateTtl,
           certificate.expiresAt <= challenge.expiresAt,
           challenge.expiresAt <= context.epochEnd, certificate.expiresAt <= Uint64Max,
           (startedAtMs \div 1000) - LagMargin <= context.now,
           challenge.validAfter <= context.now, context.now < certificate.expiresAt
    PROVE  /\ ValidCertificateWindow(challenge, certificate, context)
           /\ challenge.validAfter < certificate.issuedAt
                  => certificate.expiresAt
                         <= (startedAtMs \div 1000) + context.maxCertificateTtl - LagMargin
<1>0. startedAtMs \div 1000 \in Nat
  OBVIOUS
<1>1. /\ certificate.issuedAt \in Nat
      /\ challenge.validAfter <= certificate.issuedAt
      /\ certificate.issuedAt <= context.now
      /\ challenge.validAfter < certificate.issuedAt
             => certificate.issuedAt = (startedAtMs \div 1000) - LagMargin
  BY <1>0 DEF CertificateIssuedAt, Later, LagMargin
<1>2. ValidCertificateWindow(challenge, certificate, context)
  BY <1>1, ProtocolAssumption DEF ValidCertificateWindow
<1> QED BY <1>0, <1>1, <1>2 DEF LagMargin

(* Whatever the API answers, under one digest of a configuration the       *)
(* target and the times are the same, and under one key of an epoch its    *)
(* number and its anchor (verifyApiConfiguration, trust.ts).               *)
THEOREM DigestsBind ==
    ASSUME NEW manifest, NEW one, NEW other,
           VerifyApiConfiguration(manifest, one), VerifyApiConfiguration(manifest, other)
    PROVE  /\ one.workConfig.configDigest = other.workConfig.configDigest =>
                  /\ one.workConfig.target = other.workConfig.target
                  /\ one.workConfig.epochSeconds = other.workConfig.epochSeconds
                  /\ one.workConfig.maxChallengeTtl = other.workConfig.maxChallengeTtl
                  /\ one.workConfig.maxCertificateTtl = other.workConfig.maxCertificateTtl
           /\ one.epoch.epochKey = other.epoch.epochKey =>
                  /\ one.epoch.epochId = other.epoch.epochId
                  /\ one.epoch.anchorBlockHash = other.epoch.anchorBlockHash
<1>1. /\ HashWorkConfig(one.workConfig) = one.workConfig.configDigest
      /\ HashWorkConfig(other.workConfig) = other.workConfig.configDigest
  BY Zenon DEF VerifyApiConfiguration
<1>2. /\ DeriveEpochKey(manifest.chainId, manifest.deployment["controller"],
                        one.epoch.epochId, one.epoch.anchorBlockNumber,
                        one.epoch.anchorBlockHash) = one.epoch.epochKey
      /\ DeriveEpochKey(manifest.chainId, manifest.deployment["controller"],
                        other.epoch.epochId, other.epoch.anchorBlockNumber,
                        other.epoch.anchorBlockHash) = other.epoch.epochKey
  BY Zenon DEF VerifyApiConfiguration
<1> QED BY <1>1, <1>2 DEF HashWorkConfig, DeriveEpochKey

(* Two manifests that are parsed for one environment are of one chain and  *)
(* one Core, and in each an address names one contract                     *)
(* (parseDeploymentManifest, manifest.ts).                                 *)
THEOREM EnvironmentBinds ==
    ASSUME NEW expected, NEW one, NEW other,
           ParsedDeploymentManifest(one, expected), ParsedDeploymentManifest(other, expected)
    PROVE  /\ one.chainId = other.chainId
           /\ one.contracts["core"] = other.contracts["core"]
           /\ \A a, b \in Contracts : one.contracts[a] = one.contracts[b] => a = b
<1>1. /\ EnvironmentId(one.chainId, one.contracts["core"]) = expected
      /\ EnvironmentId(other.chainId, other.contracts["core"]) = expected
      /\ \A a, b \in Contracts : one.contracts[a] = one.contracts[b] => a = b
  BY Zenon DEF ParsedDeploymentManifest
<1> QED BY <1>1 DEF EnvironmentId

-----------------------------------------------------------------------------
(* The call that mineOnce stores is the one assertCertifiedMintCall takes  *)
(* when another process resumes the operation; and of two calls it takes   *)
(* for one operation the certificate is the same (agent.ts).               *)
THEOREM StoredCallIsTaken ==
    ASSUME NEW manifest, NEW wallet, NEW operation, NEW challenge, NEW issuer,
           NEW certificate, NEW verifier,
           operation.kind = "MINT", challenge.minter = wallet,
           CertificateHashable(certificate),
           operation.receiptHash
               = HashWorkCertificateTypedData(MintDomain(manifest), certificate)
    PROVE  CertifiedMintCall(manifest, wallet, operation,
               BuildMintCall(manifest.chainId, manifest.deployment["controller"], challenge,
                             issuer, certificate, verifier))
<1> DEFINE call == BuildMintCall(manifest.chainId, manifest.deployment["controller"],
                                 challenge, issuer, certificate, verifier)
<1>1. /\ call.chainId = manifest.chainId /\ call.to = manifest.deployment["controller"]
      /\ call.valueNative = MintFee /\ call.function = "mint"
      /\ call.args = <<challenge, issuer, certificate, verifier>>
  BY DEF BuildMintCall, Call
<1> HIDE DEF call
<1>2. call.args[1] = challenge /\ call.args[3] = certificate
  BY <1>1
<1>3. CertifiedMintCall(manifest, wallet, operation, call)
  BY <1>1, <1>2, Zenon DEF CertifiedMintCall
<1> QED BY <1>3 DEF call

(* Two calls that pass the check of a stored Mint for one operation carry  *)
(* one certificate (assertCertifiedMintCall, agent.ts).                    *)
THEOREM OneCertificate ==
    ASSUME NEW manifest, NEW wallet, NEW operation, NEW one, NEW other,
           CertifiedMintCall(manifest, wallet, operation, one),
           CertifiedMintCall(manifest, wallet, operation, other)
    PROVE  /\ one.args[3].challengeHash = other.args[3].challengeHash
           /\ one.args[3].workNonce = other.args[3].workNonce
           /\ one.args[3].expiresAt = other.args[3].expiresAt
<1>1. HashWorkCertificateTypedData(MintDomain(manifest), one.args[3])
          = HashWorkCertificateTypedData(MintDomain(manifest), other.args[3])
  BY Zenon DEF CertifiedMintCall
<1> DEFINE d == HashDomain(MintDomain(manifest))
<1>2. <<"0x1901", d, HashWorkCertificateStruct(one.args[3])>>
          = <<"0x1901", d, HashWorkCertificateStruct(other.args[3])>>
  BY <1>1, Zenon DEF HashWorkCertificateTypedData, HashTypedData
<1> HIDE DEF d
<1>3. HashWorkCertificateStruct(one.args[3]) = HashWorkCertificateStruct(other.args[3])
  BY <1>2
<1> QED BY <1>3 DEF HashWorkCertificateStruct

(* What the Circle driver has executed is the call it was asked for, with  *)
(* the same value, and no argument of it is a tuple or an array            *)
(* (executableCall, circle-cli-driver.ts).                                 *)
THEOREM ExecutesTheCall ==
    ASSUME NEW call, NEW driver, NEW mirrorOf,
           call = [chainId |-> call.chainId, to |-> call.to, valueNative |-> call.valueNative,
                   function |-> call.function, args |-> call.args],
           call.function \notin {"mintEncoded", "registerEncoded",
                                 "registerEpoch", "registerWorkConfig"},
           Executable(call, driver, mirrorOf)
    PROVE  /\ Effect(ExecutableCall(call, driver), mirrorOf) = call
           /\ ExecutableCall(call, driver).function \notin Compound
           /\ ExecutableCall(call, driver).valueNative = call.valueNative
<1> DEFINE made == ExecutableCall(call, driver)
<1>1. CASE call.function = "mint"
  <2>1. made = [call EXCEPT !.function = "mintEncoded", !.args = <<call.args>>]
    BY <1>1 DEF ExecutableCall, BuildEncodedMintCall
  <2>2. made = [chainId |-> call.chainId, to |-> call.to, valueNative |-> call.valueNative,
                function |-> "mintEncoded", args |-> <<call.args>>]
    BY <2>1
  <2> HIDE DEF made
  <2>3. Effect(made, mirrorOf) = [made EXCEPT !.function = "mint", !.args = made.args[1]]
    BY <2>2 DEF Effect
  <2>4. Effect(made, mirrorOf)
            = [chainId |-> call.chainId, to |-> call.to, valueNative |-> call.valueNative,
               function |-> "mint", args |-> call.args]
    BY <2>2, <2>3
  <2>5. Effect(made, mirrorOf) = call
    BY <1>1, <2>4
  <2>6. made.function \notin Compound /\ made.valueNative = call.valueNative
    BY <2>2 DEF Compound
  <2> QED BY <2>5, <2>6 DEF made
<1>2. CASE call.function = "registerContent"
  <2>1. made = [call EXCEPT !.to = driver.registrar, !.function = "registerEncoded",
                            !.args = <<call.args>>]
    BY <1>2 DEF ExecutableCall
  <2>2. made = [chainId |-> call.chainId, to |-> driver.registrar,
                valueNative |-> call.valueNative, function |-> "registerEncoded",
                args |-> <<call.args>>]
    BY <2>1
  <2> HIDE DEF made
  <2>3. Effect(made, mirrorOf) = [made EXCEPT !.to = mirrorOf[made.to],
                                              !.function = "registerContent",
                                              !.args = made.args[1]]
    BY <2>2 DEF Effect
  <2>4. mirrorOf[driver.registrar] = call.to
    BY <1>2 DEF Executable, ForwardsTo
  <2>5. Effect(made, mirrorOf)
            = [chainId |-> call.chainId, to |-> call.to, valueNative |-> call.valueNative,
               function |-> "registerContent", args |-> call.args]
    BY <2>2, <2>3, <2>4
  <2>6. Effect(made, mirrorOf) = call
    BY <1>2, <2>5
  <2>7. made.function \notin Compound /\ made.valueNative = call.valueNative
    BY <2>2 DEF Compound
  <2> QED BY <2>6, <2>7 DEF made
<1>3. CASE call.function \notin {"mint", "registerContent"}
  <2>1. ExecutableCall(call, driver) = call
    BY <1>3 DEF ExecutableCall
  <2> QED BY <1>3, <2>1 DEF Effect, Compound
<1> QED BY <1>1, <1>2, <1>3

(* "Round both up, so the budget this CLI reserves is never below the      *)
(* cost" (chainFeeQuote, circle-cli-driver.ts).  The division rounds down; *)
(* even so the quote is never below the chain's estimate.                  *)
THEOREM QuoteCoversEstimate ==
    ASSUME NEW gas \in Nat, NEW price \in Nat
    PROVE  /\ gas <= ChainFeeQuote(gas, price).gasLimit
           /\ gas * price <= ChainFeeQuote(gas, price).maxGasNative
<1> DEFINE limit == (gas * 12) \div 10
<1>1. limit \in Nat /\ gas <= limit
  OBVIOUS
<1>2. /\ ChainFeeQuote(gas, price).gasLimit = limit
      /\ ChainFeeQuote(gas, price).maxGasNative = limit * price
  BY DEF ChainFeeQuote, ChainQuote
<1> HIDE DEF limit
<1>3. gas * price <= limit * price
  <2>1. (limit - gas) * price \in Nat
    BY <1>1
  <2>2. limit * price = gas * price + (limit - gas) * price
    BY <1>1
  <2> QED BY <1>1, <2>1, <2>2
<1> QED BY <1>1, <1>2, <1>3

(* No wallet that this repository drives is fit for an unattended Mint by  *)
(* itself: it takes an authorization that is neither revoked nor over      *)
(* (preflightConfig, agent.ts; wallets.ts, circle-cli-driver.ts).          *)
THEOREM UnattendedNeedsSession ==
    ASSUME NEW manifest, NEW wallet, NEW evidence, NEW authorization, NEW now,
           \/ wallet.capabilities = EoaCapabilities(evidence)
           \/ wallet.capabilities = CircleCapabilities(evidence),
           PreflightWallet(manifest, wallet, TRUE, authorization, now)
    PROVE  /\ authorization # Unset /\ ~authorization.revoked
           /\ now < authorization.expiresAt
<1>1. "expiry" \in CapabilityNames
  BY DEF CapabilityNames
<1>2. wallet.capabilities["expiry"] = Unsupported(evidence)
  BY <1>1 DEF EoaCapabilities, CircleCapabilities
<1>3. ~IsHardCapability(wallet.capabilities["expiry"])
  BY <1>2 DEF IsHardCapability, Unsupported
<1>4. ~UnattendedReady(wallet.capabilities)
  BY <1>1, <1>3 DEF UnattendedReady
<1> QED BY <1>4, Zenon DEF PreflightWallet

-----------------------------------------------------------------------------
(* The session of ApiSession: a write is done once per turn of a command.  *)

(* Where the work of a command may have been handed in: it has its         *)
(* challenge, and takes no other.                                          *)
Late == {"work", "poll"} \cup Ended

(* The key of a write is one its process has drawn, and that of its work   *)
(* the one it still has.                                                   *)
Drawn(kind, key) ==
    /\ key[2] = "first" \/ proc[key[1]].renewed
    /\ kind = "work" => key = Key(key[1]) /\ proc[key[1]].pc \in Late

SessionInv ==
    /\ TypeOK
    /\ \A r \in network : Drawn(r.kind, r.key)
    /\ \A w \in done : Drawn(w[1], w[2])

(* No command forgets that it has logged in again, and none comes back to  *)
(* its challenge once it has one.                                          *)
Onward ==
    \A p \in Pids :
        /\ proc[p].renewed => proc'[p].renewed
        /\ proc[p].pc \in Late =>
               proc'[p].pc \in Late /\ proc'[p].renewed = proc[p].renewed

LEMMA DrawnStays ==
    ASSUME Onward, NEW kind \in Writes, NEW key \in Keys, Drawn(kind, key)
    PROVE  Drawn(kind, key)'
BY DEF Onward, Drawn, Key, Turn, Keys

LEMMA InvStays ==
    ASSUME SessionInv, TypeOK', Onward,
           \A r \in network' \ network : Drawn(r.kind, r.key)',
           \A w \in done' \ done : Drawn(w[1], w[2])'
    PROVE  SessionInv'
<1>1. ASSUME NEW r \in network' PROVE Drawn(r.kind, r.key)'
  <2>1. CASE r \in network
    <3>1. r.kind \in Writes /\ r.key \in Keys /\ Drawn(r.kind, r.key)
      BY <2>1 DEF SessionInv, TypeOK, Request
    <3> QED BY <3>1, DrawnStays
  <2> QED BY <2>1
<1>2. ASSUME NEW w \in done' PROVE Drawn(w[1], w[2])'
  <2>1. CASE w \in done
    <3>1. w[1] \in Writes /\ w[2] \in Keys /\ Drawn(w[1], w[2])
      BY <2>1 DEF SessionInv, TypeOK
    <3> QED BY <3>1, DrawnStays
  <2> QED BY <2>1
<1> QED BY <1>1, <1>2 DEF SessionInv

(* What a process keeps for itself. *)
Local == [pc : {"idle", "authenticate", "save", "clear", "poll"} \cup Writes \cup Ended,
          bearer : Tokens \cup {None}, renewed : BOOLEAN, attempt : 0..Attempts,
          challenge : Keys \cup {None}, behind : BOOLEAN, polls : 0..Polls]

Labels == {"idle", "authenticate", "save", "clear", "poll"} \cup Writes \cup Ended

LEMMA LocalType == TypeOK => \A p \in Pids : proc[p] \in Local
BY DEF TypeOK, Local

LEMMA BecomeType ==
    ASSUME TypeOK, NEW p \in Pids, NEW local \in Local, Become(p, local)
    PROVE  proc' \in [Pids -> Local] /\ proc'[p] = local
           /\ \A q \in Pids \ {p} : proc'[q] = proc[q]
BY DEF Become, TypeOK, Local

LEMMA ThenType ==
    ASSUME TypeOK, NEW p \in Pids, NEW label \in Labels
    PROVE  /\ Then(p, label) \in Local
           /\ Then(p, label).pc = label
           /\ Then(p, label).renewed = proc[p].renewed
<1>1. 0 \in 0..Attempts /\ 0 \in 0..Polls
  BY SessionAssumption
<1> QED BY <1>1, LocalType DEF Then, Local, Idle, Labels

(* A process goes to a label with its turn. *)
LEMMA BecomeOnward ==
    ASSUME TypeOK, NEW p \in Pids, NEW local \in Local, Become(p, local),
           proc[p].renewed => local.renewed,
           proc[p].pc \in Late => local.pc \in Late /\ local.renewed = proc[p].renewed
    PROVE  Onward
BY BecomeType DEF Onward

LEMMA RequestType ==
    ASSUME TypeOK, NEW p \in Pids, proc[p].pc \in Writes
    PROVE  /\ RequestOf(p) \in Request /\ RequestOf(p).kind = proc[p].pc
           /\ RequestOf(p).key = Key(p) /\ Key(p) \in Keys
           /\ Key(p)[1] = p /\ Key(p)[2] = Turn(p)
BY LocalType DEF Local, RequestOf, Request, Key, Keys, Turn, Turns, At

LEMMA DoType ==
    ASSUME TypeOK, NEW r \in Request, Do(r)
    PROVE  done' \subseteq Writes \X Keys /\ valid' \subseteq Tokens
           /\ done' \ done \subseteq {<<r.kind, r.key>>}
BY DEF TypeOK, Do, Request, Tokens
-----------------------------------------------------------------------------
(* Steps that write nothing at the server. *)

LEMMA QuietStep ==
    ASSUME SessionInv, NEW p \in Pids, NEW local \in Local, Become(p, local),
           proc[p].renewed => local.renewed,
           proc[p].pc \in Late => local.pc \in Late /\ local.renewed = proc[p].renewed,
           stored' \in Tokens \cup {None}, UNCHANGED <<serverVars, network>>
    PROVE  SessionInv'
<1>1. TypeOK
  BY DEF SessionInv
<1>2. Onward
  BY <1>1, BecomeOnward
<1>3. TypeOK'
  BY <1>1, BecomeType DEF TypeOK, Local, serverVars
<1> QED BY <1>2, <1>3, InvStays DEF serverVars

LEMMA SendKeeps == ASSUME SessionInv, NEW p \in Pids, Send(p) PROVE SessionInv'
<1> DEFINE local == [proc[p] EXCEPT !.attempt = @ + 1]
<1>1. TypeOK /\ proc[p] \in Local /\ proc[p].pc \in Writes
  BY LocalType DEF SessionInv, Send
<1>2. /\ local \in Local /\ local.pc = proc[p].pc /\ local.renewed = proc[p].renewed
      /\ Become(p, local)
  BY <1>1, SessionAssumption DEF Send, Local
<1> HIDE DEF local
<1>3. Onward /\ proc' \in [Pids -> Local] /\ proc'[p] = local
  BY <1>1, <1>2, BecomeOnward, BecomeType
<1>4. /\ RequestOf(p) \in Request /\ RequestOf(p).kind = proc[p].pc
      /\ RequestOf(p).key = Key(p) /\ Key(p)[1] = p /\ Key(p)[2] = Turn(p)
  BY <1>1, RequestType
<1>5. TypeOK'
  BY <1>1, <1>3, <1>4 DEF TypeOK, Send, serverVars, Local
<1>6. Turn(p)' = Turn(p) /\ Key(p)' = Key(p) /\ proc'[p].pc = proc[p].pc
  BY <1>2, <1>3 DEF Key, Turn
<1>7. ASSUME NEW r \in network' \ network PROVE Drawn(r.kind, r.key)'
  <2>1. r.kind = proc[p].pc /\ r.key = Key(p) /\ r.key[1] = p /\ r.key[2] = Turn(p)
    BY <1>4 DEF Send
  <2>2. proc'[p].pc = "work" => proc'[p].pc \in Late
    BY DEF Late
  <2> QED BY <1>6, <2>1, <2>2 DEF Drawn, Turn
<1> QED BY <1>3, <1>5, <1>7, InvStays DEF Send, serverVars

LEMMA GiveUpKeeps == ASSUME SessionInv, NEW p \in Pids, GiveUp(p) PROVE SessionInv'
<1>1. TypeOK /\ "failed" \in Labels /\ stored \in Tokens \cup {None}
  BY DEF SessionInv, TypeOK, Labels, Ended
<1> QED BY <1>1, ThenType, QuietStep DEF GiveUp, Goto, Late, Ended

LEMMA AbortKeeps == ASSUME SessionInv, NEW p \in Pids, Abort(p) PROVE SessionInv'
<1>1. TypeOK /\ "failed" \in Labels /\ stored \in Tokens \cup {None}
  BY DEF SessionInv, TypeOK, Labels, Ended
<1> QED BY <1>1, ThenType, QuietStep DEF Abort, Goto, Late, Ended

LEMMA MineOnceKeeps == ASSUME SessionInv, NEW p \in Pids, MineOnce(p) PROVE SessionInv'
<1>1. TypeOK /\ stored \in Tokens \cup {None}
  BY DEF SessionInv, TypeOK
<1>2. PICK label \in {"authenticate", "failed"} : Goto(p, label)
  BY DEF MineOnce
<1>3. label \in Labels /\ proc[p].pc \notin Late
  BY DEF MineOnce, At, Labels, Ended, Late
<1> QED BY <1>1, <1>2, <1>3, ThenType, QuietStep DEF MineOnce, Goto

LEMMA AuthenticateKeeps == ASSUME SessionInv, NEW p \in Pids, Authenticate(p) PROVE SessionInv'
<1>1. TypeOK /\ stored \in Tokens \cup {None} /\ proc[p].pc \notin Late
  BY DEF SessionInv, TypeOK, Authenticate, At, Late, Ended
<1>2. {"session", "challenge"} \subseteq Labels
  BY DEF Labels, Writes
<1>3. CASE Goto(p, "session")
  BY <1>1, <1>2, <1>3, ThenType, QuietStep DEF Authenticate, Goto
<1>4. CASE /\ stored # None
           /\ Become(p, [Then(p, "challenge") EXCEPT !.bearer = stored])
  <2> DEFINE local == [Then(p, "challenge") EXCEPT !.bearer = stored]
  <2>1. local \in Local /\ local.renewed = proc[p].renewed
    BY <1>1, <1>2, <1>4, ThenType DEF Local
  <2> HIDE DEF local
  <2>2. Become(p, local)
    BY <1>4 DEF local
  <2> QED BY <1>1, <2>1, <2>2, QuietStep DEF Authenticate
<1> QED BY <1>3, <1>4 DEF Authenticate

LEMMA SaveKeeps == ASSUME SessionInv, NEW p \in Pids, SaveApiSession(p) PROVE SessionInv'
<1>1. TypeOK /\ "challenge" \in Labels /\ proc[p].pc \notin Late
  BY DEF SessionInv, SaveApiSession, At, Late, Ended, Labels, Writes
<1>2. stored' \in Tokens \cup {None}
  BY <1>1, LocalType DEF SaveApiSession, Local
<1> QED BY <1>1, <1>2, ThenType, QuietStep DEF SaveApiSession, Goto

LEMMA ClearKeeps == ASSUME SessionInv, NEW p \in Pids, ClearApiSession(p) PROVE SessionInv'
<1> DEFINE local == [Then(p, "session") EXCEPT !.renewed = TRUE]
<1>1. TypeOK /\ "session" \in Labels /\ proc[p].pc \notin Late
  BY DEF SessionInv, ClearApiSession, At, Late, Ended, Labels, Writes
<1>2. Then(p, "session") \in Local
  BY <1>1, ThenType
<1>3. local \in Local
  BY <1>2 DEF Local
<1>4. local.renewed = TRUE
  BY <1>2 DEF Local
<1> HIDE DEF local
<1>5. Become(p, local)
  BY DEF ClearApiSession, local
<1>6. stored' \in Tokens \cup {None}
  BY DEF ClearApiSession
<1> QED BY <1>1, <1>3, <1>4, <1>5, <1>6, QuietStep DEF ClearApiSession

LEMMA PollKeeps == ASSUME SessionInv, NEW p \in Pids, Poll(p) PROVE SessionInv'
<1>1. TypeOK /\ proc[p] \in Local /\ stored \in Tokens \cup {None} /\ proc[p].pc = "poll"
  BY LocalType DEF SessionInv, TypeOK, Poll, At
<1>2. \A label \in Ended : label \in Labels /\ label \in Late
  BY DEF Labels, Late
<1>3. CASE \E label \in Ended : Goto(p, label)
  BY <1>1, <1>2, <1>3, ThenType, QuietStep DEF Poll, Goto
<1>4. CASE proc[p].polls + 1 < Polls /\ Become(p, [proc[p] EXCEPT !.polls = @ + 1])
  <2> DEFINE local == [proc[p] EXCEPT !.polls = @ + 1]
  <2>1. local \in Local /\ local.renewed = proc[p].renewed /\ local.pc = "poll"
    BY <1>1, <1>4, SessionAssumption DEF Local
  <2> HIDE DEF local
  <2>2. Become(p, local)
    BY <1>4 DEF local
  <2> QED BY <1>1, <2>1, <2>2, QuietStep DEF Poll, Late
<1> QED BY <1>3, <1>4 DEF Poll, Ended
-----------------------------------------------------------------------------
(* Steps with an answer of the server. *)

LEMMA RefusedKeeps ==
    ASSUME SessionInv, NEW p \in Pids, proc[p].pc \in {"challenge", "work"}, Refused(p),
           NEW label \in {"failed", "clear"}, Goto(p, label), UNCHANGED stored,
           proc[p].pc = "work" => label = "failed"
    PROVE  SessionInv'
<1>1. TypeOK /\ label \in Labels /\ stored \in Tokens \cup {None}
  BY DEF SessionInv, TypeOK, Labels, Ended
<1>2. proc[p].pc \in Late => label \in Late
  BY DEF Late, Ended
<1> QED BY <1>1, <1>2, ThenType, QuietStep DEF Refused, Goto

LEMMA AnsweredKeeps ==
    ASSUME SessionInv, NEW p \in Pids, proc[p].pc \in Writes, Answered(p), UNCHANGED stored,
           NEW local \in Local, Become(p, local), local.renewed = proc[p].renewed,
           proc[p].pc = "work" => local.pc \in Late
    PROVE  SessionInv'
<1>1. TypeOK /\ proc[p] \in Local
  BY LocalType DEF SessionInv
<1>2. proc[p].pc \in Late => local.pc \in Late
  BY DEF Late, Ended, Writes
<1>3. Onward /\ proc' \in [Pids -> Local] /\ proc'[p] = local
  BY <1>1, <1>2, BecomeOnward, BecomeType
<1>4. /\ RequestOf(p) \in Request /\ RequestOf(p).kind = proc[p].pc
      /\ RequestOf(p).key = Key(p) /\ Key(p)[1] = p /\ Key(p)[2] = Turn(p)
  BY <1>1, RequestType
<1>5. /\ done' \subseteq Writes \X Keys /\ valid' \subseteq Tokens
      /\ done' \ done \subseteq {<<proc[p].pc, Key(p)>>}
  BY <1>1, <1>4, DoType DEF Answered
<1>6. TypeOK'
  BY <1>1, <1>3, <1>5 DEF TypeOK, Answered, Local
<1>7. Turn(p)' = Turn(p) /\ Key(p)' = Key(p)
  BY <1>3 DEF Key, Turn
<1>8. ASSUME NEW w \in done' \ done PROVE Drawn(w[1], w[2])'
  <2>1. w[1] = proc[p].pc /\ w[2] = Key(p) /\ w[2][1] = p /\ w[2][2] = Turn(p)
    BY <1>4, <1>5
  <2> QED BY <1>3, <1>7, <2>1 DEF Drawn, Turn
<1> QED BY <1>3, <1>6, <1>8, InvStays DEF Answered

LEMMA CreateKeeps == ASSUME SessionInv, NEW p \in Pids, CreateAuthSession(p) PROVE SessionInv'
<1> DEFINE local == [Then(p, "save") EXCEPT !.bearer = Key(p)]
<1>1. TypeOK /\ "save" \in Labels /\ proc[p].pc = "session" /\ "session" \in Writes
  BY DEF SessionInv, CreateAuthSession, At, Labels, Writes
<1>2. local \in Local /\ local.renewed = proc[p].renewed
  BY <1>1, ThenType, RequestType DEF Local, Tokens
<1> HIDE DEF local
<1>3. Become(p, local)
  BY DEF CreateAuthSession, local
<1> QED BY <1>1, <1>2, <1>3, AnsweredKeeps DEF CreateAuthSession

LEMMA IssueKeeps == ASSUME SessionInv, NEW p \in Pids, IssueChallenge(p) PROVE SessionInv'
<1>1. TypeOK /\ "work" \in Labels /\ proc[p].pc = "challenge" /\ "challenge" \in Writes
  BY DEF SessionInv, IssueChallenge, At, Labels, Writes
<1>2. CASE Answered(p) /\ Become(p, [Then(p, "work") EXCEPT !.challenge = Key(p)])
  <2> DEFINE local == [Then(p, "work") EXCEPT !.challenge = Key(p)]
  <2>1. local \in Local /\ local.renewed = proc[p].renewed
    BY <1>1, ThenType, RequestType DEF Local
  <2> HIDE DEF local
  <2>2. Become(p, local)
    BY <1>2 DEF local
  <2> QED BY <1>1, <1>2, <2>1, <2>2, AnsweredKeeps DEF IssueChallenge
<1>3. CASE Refused(p) /\ Goto(p, IF proc[p].renewed THEN "failed" ELSE "clear")
  BY <1>1, <1>3, RefusedKeeps DEF IssueChallenge
<1> QED BY <1>2, <1>3 DEF IssueChallenge

LEMMA SubmitKeeps == ASSUME SessionInv, NEW p \in Pids, SubmitWork(p) PROVE SessionInv'
<1>1. TypeOK /\ "poll" \in Labels /\ proc[p].pc = "work" /\ "work" \in Writes /\ "poll" \in Late
  BY DEF SessionInv, SubmitWork, At, Labels, Writes, Late
<1>2. CASE Answered(p) /\ Goto(p, "poll")
  BY <1>1, <1>2, ThenType, AnsweredKeeps DEF SubmitWork, Goto
<1>3. CASE Refused(p) /\ Goto(p, "failed")
  BY <1>1, <1>3, RefusedKeeps DEF SubmitWork
<1> QED BY <1>2, <1>3 DEF SubmitWork

(* The server: a late request carries a key that was drawn when it was     *)
(* sent.                                                                   *)
LEMMA UnheardKeeps == ASSUME SessionInv, NEW r \in network, DoneUnheard(r) PROVE SessionInv'
<1>1. TypeOK /\ r \in Request /\ Drawn(r.kind, r.key)
  BY DEF SessionInv, TypeOK
<1>2. /\ done' \subseteq Writes \X Keys /\ valid' \subseteq Tokens
      /\ done' \ done \subseteq {<<r.kind, r.key>>}
  BY <1>1, DoType DEF DoneUnheard
<1>3. TypeOK' /\ Onward
  BY <1>1, <1>2 DEF TypeOK, DoneUnheard, Onward
<1>4. r.kind \in Writes /\ r.key \in Keys
  BY <1>1 DEF Request
<1>5. ASSUME NEW w \in done' \ done PROVE Drawn(w[1], w[2])'
  <2>1. w[1] = r.kind /\ w[2] = r.key
    BY <1>2
  <2>2. w[1] \in Writes /\ w[2] \in Keys /\ Drawn(w[1], w[2])
    BY <1>1, <1>4, <2>1
  <2> QED BY <1>3, <2>2, DrawnStays
<1> QED BY <1>3, <1>5, InvStays DEF DoneUnheard

LEMMA EndSessionKeeps == ASSUME SessionInv, NEW t \in valid, EndSession(t) PROVE SessionInv'
<1>1. TypeOK' /\ Onward
  BY DEF SessionInv, TypeOK, EndSession, Onward
<1> QED BY <1>1, InvStays DEF EndSession

LEMMA NextEpochKeeps == ASSUME SessionInv, NextEpoch PROVE SessionInv'
<1>1. TypeOK
  BY DEF SessionInv
<1>2. ASSUME NEW p \in Pids
      PROVE  /\ proc'[p] \in Local
             /\ proc'[p].pc = proc[p].pc /\ proc'[p].renewed = proc[p].renewed
  <2>1. proc[p] \in Local /\ (proc[p].behind \/ AwaitsChallenge(p)) \in BOOLEAN
    BY <1>1, LocalType DEF Local, AwaitsChallenge
  <2>2. proc'[p] = [proc[p] EXCEPT !.behind = proc[p].behind \/ AwaitsChallenge(p)]
    BY DEF NextEpoch
  <2> QED BY <2>1, <2>2 DEF Local
<1>3. DOMAIN proc' = Pids /\ proc' = [p \in Pids |-> proc'[p]]
  BY DEF NextEpoch
<1>4. TypeOK'
  BY <1>1, <1>2, <1>3 DEF TypeOK, NextEpoch, Local
<1>5. Onward
  BY <1>2 DEF Onward
<1> QED BY <1>4, <1>5, InvStays DEF NextEpoch

-----------------------------------------------------------------------------
LEMMA SessionBegins == Init => SessionInv
<1> SUFFICES ASSUME Init PROVE SessionInv
  OBVIOUS
<1>1. Idle \in Local
  BY SessionAssumption DEF Idle, Local
<1>2. stored \in Tokens \cup {None} /\ valid \subseteq Tokens
  BY DEF Init, Tokens
<1> QED BY <1>1, <1>2 DEF Init, SessionInv, TypeOK, Local

LEMMA SessionStep == ASSUME SessionInv, [Next]_vars PROVE SessionInv'
<1>1. CASE UNCHANGED vars
  BY <1>1 DEF vars, serverVars, SessionInv, TypeOK, Drawn, Key, Turn
<1>2. ASSUME NEW p \in Pids,
             MineOnce(p) \/ Send(p) \/ GiveUp(p) \/ LogsIn(p) \/ Works(p) \/ Abort(p)
      PROVE  SessionInv'
  BY <1>2, MineOnceKeeps, SendKeeps, GiveUpKeeps, AuthenticateKeeps, CreateKeeps, SaveKeeps,
     ClearKeeps, IssueKeeps, SubmitKeeps, PollKeeps, AbortKeeps DEF LogsIn, Works
<1>3. CASE Server
  BY <1>3, UnheardKeeps, EndSessionKeeps, NextEpochKeeps DEF Server
<1> QED BY <1>1, <1>2, <1>3 DEF Next

(* A key the server or the network has seen was drawn by the process and   *)
(* the turn it names (the idempotency keys of agent.ts).                   *)
THEOREM SessionInvHolds == Spec => []SessionInv
<1> QED BY SessionBegins, SessionStep, PTL DEF Spec

(* Writes of one kind and process differ in their turn. *)
LEMMA OneAtMost ==
    ASSUME NEW S, NEW a, S \subseteq {a}
    PROVE  Cardinality(S) <= 1
<1>1. IsFiniteSet({a}) /\ Cardinality({a}) = 1
  BY FS_Singleton
<1>2. Cardinality(S) <= Cardinality({a})
  BY <1>1, FS_Subset
<1> QED BY <1>1, <1>2

LEMMA TwoAtMost ==
    ASSUME NEW S, NEW a, NEW b, S \subseteq {a, b}
    PROVE  Cardinality(S) <= 2
<1>1. IsFiniteSet({a}) /\ Cardinality({a}) = 1
  BY FS_Singleton
<1>2. {a} \cup {b} = {a, b}
  OBVIOUS
<1>3. IsFiniteSet({a, b}) /\ Cardinality({a, b}) \in {1, 2}
  BY <1>1, <1>2, FS_AddElement
<1>4. Cardinality(S) <= Cardinality({a, b}) /\ Cardinality(S) \in Nat
  BY <1>3, FS_Subset, FS_CardinalityType
<1> QED BY <1>3, <1>4

LEMMA InvWrites == SessionInv => WrittenOnce
<1> SUFFICES ASSUME SessionInv, NEW p \in Pids
    PROVE  /\ Cardinality(Done("work", p)) <= 1
           /\ \A kind \in Writes :
                 Cardinality(Done(kind, p)) <= (IF proc[p].renewed THEN 2 ELSE 1)
  BY DEF WrittenOnce, Writes
<1>1. ASSUME NEW kind, NEW w \in Done(kind, p)
      PROVE  /\ w = <<kind, w[2]>> /\ w[2] = <<p, w[2][2]>> /\ w[2][2] \in Turns
             /\ Drawn(kind, w[2])
  BY DEF Done, SessionInv, TypeOK, Keys
<1>2. Done("work", p) \subseteq {<<"work", Key(p)>>}
  BY <1>1 DEF Drawn, Key
<1>3. ASSUME NEW kind \in Writes
      PROVE  Cardinality(Done(kind, p)) <= (IF proc[p].renewed THEN 2 ELSE 1)
  <2>1. CASE proc[p].renewed
    <3>1. Done(kind, p) \subseteq {<<kind, <<p, "first">>>>, <<kind, <<p, "renewed">>>>}
      BY <1>1 DEF Turns
    <3> QED BY <2>1, <3>1, TwoAtMost
  <2>2. CASE ~proc[p].renewed
    <3>1. Done(kind, p) \subseteq {<<kind, <<p, "first">>>>}
      BY <1>1, <2>2 DEF Drawn
    <3> QED BY <2>2, <3>1, OneAtMost
  <2> QED BY <2>1, <2>2
<1> QED BY <1>2, <1>3, OneAtMost

(* A command hands in its work once and takes a second session or          *)
(* challenge only after a refusal, for any number of processes, attempts   *)
(* and polls, however late or often the server does what was asked         *)
(* (send, packages/sdk/src/index.ts; issueChallengeWithSession, agent.ts). *)
THEOREM WritesAreOnce == Spec => []WrittenOnce
<1> QED BY SessionInvHolds, InvWrites, PTL
==============================================================================
