CONSTANTS
  MaxKey = 6
  Kinds = {"hb", "rb", "wb", "pr", "sp", "ht", "rbdict"}
  KeysOf <- MCKeysOf
  DataOf <- MCDataOf
  Probed = {2}
  Sizes = {1, 2}
  Steps = {0, 2}
  MaxDrift = 0
SPECIFICATION Spec
INVARIANTS KeepsPromise LinksSound Balanced
CHECK_DEADLOCK FALSE
