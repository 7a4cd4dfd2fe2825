SPECIFICATION TlsSpec
CONSTANTS
  Lcore = {0, 1}
  Thread = {1, 2, 3, 4}
  Key = {1, 2}
  Name = {"a", "b", "c"}
  Setup <- MCSetup
\* Schedulers stop, and nothing goes on after a mishap.
CHECK_DEADLOCK FALSE
INVARIANTS OnePlace MutexExcludes SuspendedAreCounted GreenMishapsHaveCauses ValuesAreDestroyed
PROPERTIES LocksAreGranted JoinsReturn GreenJoinsReturn
