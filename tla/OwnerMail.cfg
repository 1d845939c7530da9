\* Two workers that may die at any step, an invite that may be reissued once, two attempts.
SPECIFICATION FairSpec
CONSTANTS
  Workers = {w1, w2}
  MaxInvites = 2
  MaxAttempts = 2
  BatchSize = 1
INVARIANTS AtMostOneMail StoppedBeforeMail OneWayIn VerifiedByMail
PROPERTIES MailsOnce LateWorkerChangesNothing DeliverySettles
