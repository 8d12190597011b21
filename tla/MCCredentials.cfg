SPECIFICATION Spec
CONSTANTS
  Totps = {otp}
  Passkeys = {passkey}
  Keys = {k1, k2}
  MaxIncidents = 2
INVARIANTS FactorUsable RevokedForGood PromisedIsKept
