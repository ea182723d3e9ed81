CONSTANTS
  Users = {"ann"}
  Uploads = {"a0", "a1", "a2"}
  Earlier = {"a0"}
  Owner <- AvatarOwner
  Foreign = "foreign"
  QRUploads = {"q1", "q2"}
  Odd = {"a2", "q2"}
  Bases <- Addresses
  Secrets = {"s1", "s2"}
  ShowTimes <- Moments
  Delays <- Later
SPECIFICATION MCSpec
INVARIANTS LinkedAvatarExists LeftoversExplained PictureLossExplained OrphansExplained
PROPERTIES ShownPictureOpens SignedLinkLifetime
\* Every upload is made once: nothing is left to do but to restart or to show.
CHECK_DEADLOCK FALSE
