\* Four commands of the user, one phone plugged in or out.
CONSTANTS
  Phones <- MCPhones
  Wireless <- MCWireless
  AddressOf <- MCAddressOf
  Sdk <- MCSdk
  MaxClicks = 4
SPECIFICATION Spec
CHECK_DEADLOCK FALSE
INVARIANTS
  StartsWhatWasChecked
  RefreshReturns
  AudioStopsCleanly
